---- MODULE Spec2Model ----
(***************************************************************************)
(* A model of the forecast analysis engine of weatherwrangler              *)
(* (WeatherAnalyzer in modules/weatherAnalyzer.js), of the weather cache   *)
(* of WeatherService and of SettingsManager.                               *)
(*                                                                         *)
(* Numbers.  JavaScript numbers are modelled as exact fixed-point          *)
(* integers: a temperature, a precipitation probability and a wind speed   *)
(* x are held as x * FP.  A rain chance (pop * 100) is held as chance * FP,*)
(* a wind in mph (speed * 2.237) as mph * FP * FP.  Math.round is Round.   *)
(* Instants are milliseconds since the epoch, forecast.dt is in seconds,   *)
(* as in the source.  The machine running the code has a fixed timezone    *)
(* (no daylight-saving change), given by what getTimezoneOffset() returns. *)
(***************************************************************************)
EXTENDS Integers, Sequences, FiniteSets, TLC

VARIABLES weatherData, settings, now, browserTzMin, pc, todayForecasts, result, explanations,
          timeSpecificRecs, localStorage, serviceCall, serviceReturn

vars == <<weatherData, settings, now, browserTzMin, pc, todayForecasts, result, explanations,
          timeSpecificRecs, localStorage, serviceCall, serviceReturn>>

\* what the analysis works on, and what the services work on
analysisVars == <<weatherData, settings, now, browserTzMin, pc, todayForecasts, result,
                  explanations, timeSpecificRecs>>
serviceVars == <<localStorage, serviceCall, serviceReturn>>

(***************************************************************************)
(* Bounds of the model.                                                    *)
(***************************************************************************)
MaxFeedLen == 9
MaxPoints == 3

(***************************************************************************)
(* Units.                                                                  *)
(***************************************************************************)
\* the fixed-point scale: three decimal places
FP == 10 * 10 * 10
MsPerMinute == 60 * 1000
MsPerHour == 60 * 60 * 1000
MsPerDay == 24 * 60 * 60 * 1000
SecPerHour == 60 * 60
SecPerDay == 24 * 60 * 60

Null == [null |-> TRUE]
None == <<>>
Some(x) == <<x>>
IsSome(o) == Len(o) > 0

\* Math.round: the nearest integer, a half rounding up; n is held at the given scale
Round(n, scale) == (2 * n + scale) \div (2 * scale)

Max2(a, b) == IF a >= b THEN a ELSE b
Min2(a, b) == IF a <= b THEN a ELSE b

RECURSIVE MaxOfSeq(_)
MaxOfSeq(s) == IF Len(s) = 1 THEN s[1] ELSE Max2(s[1], MaxOfSeq(Tail(s)))

RECURSIVE MinOfSeq(_)
MinOfSeq(s) == IF Len(s) = 1 THEN s[1] ELSE Min2(s[1], MinOfSeq(Tail(s)))

\* Array.prototype.slice(0, n)
SliceFirst(s, n) == SubSeq(s, 1, Min2(n, Len(s)))

(***************************************************************************)
(* Date in the timezone of the machine.  getTimezoneOffset() is in minutes *)
(* and positive west of UTC: the local clock shows instant - offset.       *)
(***************************************************************************)
LocalClock(t, tzMin) == t - tzMin * MsPerMinute

\* Date.prototype.getHours
GetHours(t, tzMin) == (LocalClock(t, tzMin) \div MsPerHour) % 24

\* Date.prototype.getMinutes
GetMinutes(t, tzMin) == (LocalClock(t, tzMin) \div MsPerMinute) % 60

\* new Date(d.getFullYear(), d.getMonth(), d.getDate()).getTime(): local midnight of d's local date
LocalMidnight(t, tzMin) ==
  (LocalClock(t, tzMin) \div MsPerDay) * MsPerDay + tzMin * MsPerMinute

TwoDigit(n) == IF n < 10 THEN "0" \o ToString(n) ELSE ToString(n)
Hour12(h) == IF h % 12 = 0 THEN 12 ELSE h % 12
AmPm(h) == IF h < 12 THEN "AM" ELSE "PM"

\* toLocaleTimeString('en-US', {hour: 'numeric', minute: '2-digit', hour12: true})
TimeStr(t, tzMin) ==
  ToString(Hour12(GetHours(t, tzMin))) \o ":" \o TwoDigit(GetMinutes(t, tzMin))
    \o " " \o AmPm(GetHours(t, tzMin))

\* toLocaleTimeString('en-US', {hour: 'numeric', hour12: true})
HourStr(t, tzMin) ==
  ToString(Hour12(GetHours(t, tzMin))) \o " " \o AmPm(GetHours(t, tzMin))

(***************************************************************************)
(* constants.js                                                            *)
(***************************************************************************)
THUNDERSTORM_MIN == 200
THUNDERSTORM_MAX == 232
DRIZZLE_MIN == 300
DRIZZLE_MAX == 321
RAIN_MIN == 500
RAIN_MAX == 531

(***************************************************************************)
(* WeatherAnalyzer.calculateRainChance; the result is chance * FP          *)
(***************************************************************************)
\* the rule of the legacy evaluateConditions of index.js: the weather code is
\* looked at first and the probability is used only under a rainy code
calculateRainChance_CodeFirst(forecast) ==
  IF forecast.weather = <<>>
  THEN 0
  ELSE LET weatherId == forecast.weather[1].id
       IN IF weatherId >= 200 /\ weatherId <= 531
          THEN IF IsSome(forecast.pop) /\ forecast.pop[1] # 0
               THEN forecast.pop[1] * 100 ELSE 50 * FP
          ELSE 0

calculateRainChance(forecast) ==
  IF IsSome(forecast.pop)
  THEN forecast.pop[1] * 100
  ELSE IF forecast.weather = <<>>
  THEN 0
  ELSE LET weatherId == forecast.weather[1].id
           isRainy == \/ (weatherId >= THUNDERSTORM_MIN /\ weatherId <= THUNDERSTORM_MAX)
                      \/ (weatherId >= DRIZZLE_MIN /\ weatherId <= DRIZZLE_MAX)
                      \/ (weatherId >= RAIN_MIN /\ weatherId <= RAIN_MAX)
       IN IF isRainy THEN 50 * FP ELSE 0

(***************************************************************************)
(* WeatherAnalyzer.getLocationTimezoneOffset                               *)
(***************************************************************************)
getLocationTimezoneOffset(wd, tzMin) ==
  IF IsSome(wd.city) /\ IsSome(wd.city[1].timezone)
  THEN wd.city[1].timezone[1] * 1000
  ELSE (0 - tzMin) * 60 * 1000

\* {...forecast, _timezoneOffsetMs: timezoneOffsetMs}
Enrich(forecast, timezoneOffsetMs) ==
  [k \in DOMAIN forecast \cup {"_timezoneOffsetMs"} |->
     IF k = "_timezoneOffsetMs" THEN timezoneOffsetMs ELSE forecast[k]]

(***************************************************************************)
(* WeatherAnalyzer.getTodayForecasts                                       *)
(***************************************************************************)
\* getTodayForecasts without the fallback to the first 8 points
getTodayForecasts_NoFallback(wd, nowMs, tzMin) ==
  LET timezoneOffsetMs == getLocationTimezoneOffset(wd, tzMin)
      locationTime == nowMs + timezoneOffsetMs
      todayStart == LocalMidnight(locationTime, tzMin)
      todayEnd == todayStart + 24 * 60 * 60 * 1000
      IsToday(forecast) ==
        LET forecastUtc == forecast.dt * 1000
            forecastLocalTime == forecastUtc + timezoneOffsetMs
        IN forecastLocalTime >= todayStart /\ forecastLocalTime < todayEnd
      filtered == SelectSeq(wd.list, IsToday)
  IN [i \in 1..Len(filtered) |-> Enrich(filtered[i], timezoneOffsetMs)]

getTodayForecasts(wd, nowMs, tzMin) ==
  LET timezoneOffsetMs == getLocationTimezoneOffset(wd, tzMin)
      locationTime == nowMs + timezoneOffsetMs
      todayStart == LocalMidnight(locationTime, tzMin)
      todayEnd == todayStart + 24 * 60 * 60 * 1000
      IsToday(forecast) ==
        LET forecastUtc == forecast.dt * 1000
            forecastLocalTime == forecastUtc + timezoneOffsetMs
        IN forecastLocalTime >= todayStart /\ forecastLocalTime < todayEnd
      filtered == SelectSeq(wd.list, IsToday)
      chosen == IF Len(filtered) = 0 THEN SliceFirst(wd.list, 8) ELSE filtered
  IN [i \in 1..Len(chosen) |-> Enrich(chosen[i], timezoneOffsetMs)]

(***************************************************************************)
(* WeatherAnalyzer.generateRainSummary                                     *)
(***************************************************************************)
RECURSIVE JoinStr(_, _)
JoinStr(parts, sep) ==
  IF Len(parts) = 0 THEN ""
  ELSE IF Len(parts) = 1 THEN parts[1]
  ELSE parts[1] \o sep \o JoinStr(Tail(parts), sep)

\* PeriodSummary that cuts the peak to its integer part
PeriodSummary_Truncated(period) ==
  IF period.startTime = period.endTime
  THEN period.startTime \o " (" \o ToString(period.maxChance \div FP) \o "%)"
  ELSE period.startTime \o "-" \o period.endTime
         \o " (" \o ToString(period.maxChance \div FP) \o "%)"

PeriodSummary(period) ==
  IF period.startTime = period.endTime
  THEN period.startTime \o " (" \o ToString(Round(period.maxChance, FP)) \o "%)"
  ELSE period.startTime \o "-" \o period.endTime
         \o " (" \o ToString(Round(period.maxChance, FP)) \o "%)"

generateRainSummary(rainPeriods) ==
  IF Len(rainPeriods) = 0
  THEN "No significant rain expected today"
  ELSE IF Len(rainPeriods) = 1
  THEN LET period == rainPeriods[1]
       IN IF period.startTime = period.endTime
          THEN "Rain expected around " \o period.startTime
                 \o " (" \o ToString(Round(period.maxChance, FP)) \o "% chance)"
          ELSE "Rain expected from " \o period.startTime \o " to " \o period.endTime
                 \o " (up to " \o ToString(Round(period.maxChance, FP)) \o "% chance)"
  ELSE "Rain expected: "
         \o JoinStr([i \in 1..Len(rainPeriods) |-> PeriodSummary(rainPeriods[i])], ", ")

(***************************************************************************)
(* WeatherAnalyzer.analyzeRainTiming                                       *)
(***************************************************************************)
RAIN_THRESHOLD == 10

\* forecasts.length > 0 ? forecasts[0]._timezoneOffsetMs || 0 : 0
FirstTimezoneOffset(forecasts) ==
  IF Len(forecasts) > 0 THEN forecasts[1]._timezoneOffsetMs ELSE 0

\* RainStep that leaves the period open at a point below the threshold
RainStep_NoClose(st, forecast, timezoneOffsetMs, tzMin) ==
  LET rainChance == calculateRainChance(forecast)
      utcTime == forecast.dt * 1000
      localTime == utcTime + timezoneOffsetMs
      timeStr == TimeStr(localTime, tzMin)
  IN IF rainChance >= RAIN_THRESHOLD * FP
     THEN IF st.currentPeriod = Null
          THEN [st EXCEPT !.currentPeriod =
                 [startTime |-> timeStr,
                  startHour |-> GetHours(localTime, tzMin),
                  endTime |-> timeStr,
                  endHour |-> GetHours(localTime, tzMin),
                  maxChance |-> rainChance,
                  forecasts |-> <<[time |-> timeStr, chance |-> rainChance]>>]]
          ELSE [st EXCEPT !.currentPeriod =
                 [startTime |-> st.currentPeriod.startTime,
                  startHour |-> st.currentPeriod.startHour,
                  endTime |-> timeStr,
                  endHour |-> GetHours(localTime, tzMin),
                  maxChance |-> Max2(st.currentPeriod.maxChance, rainChance),
                  forecasts |-> Append(st.currentPeriod.forecasts,
                                       [time |-> timeStr, chance |-> rainChance])]]
     ELSE st

\* RainStep that does not append the sample when it continues a period
RainStep_DropSample(st, forecast, timezoneOffsetMs, tzMin) ==
  LET rainChance == calculateRainChance(forecast)
      utcTime == forecast.dt * 1000
      localTime == utcTime + timezoneOffsetMs
      timeStr == TimeStr(localTime, tzMin)
  IN IF rainChance >= RAIN_THRESHOLD * FP
     THEN IF st.currentPeriod = Null
          THEN [st EXCEPT !.currentPeriod =
                 [startTime |-> timeStr,
                  startHour |-> GetHours(localTime, tzMin),
                  endTime |-> timeStr,
                  endHour |-> GetHours(localTime, tzMin),
                  maxChance |-> rainChance,
                  forecasts |-> <<[time |-> timeStr, chance |-> rainChance]>>]]
          ELSE [st EXCEPT !.currentPeriod =
                 [startTime |-> st.currentPeriod.startTime,
                  startHour |-> st.currentPeriod.startHour,
                  endTime |-> timeStr,
                  endHour |-> GetHours(localTime, tzMin),
                  maxChance |-> Max2(st.currentPeriod.maxChance, rainChance),
                  forecasts |-> st.currentPeriod.forecasts]]
     ELSE IF st.currentPeriod # Null
          THEN [rainPeriods |-> Append(st.rainPeriods, st.currentPeriod),
                currentPeriod |-> Null]
          ELSE st

\* RainStep that keeps the first chance of a period as its peak
RainStep_KeepFirstChance(st, forecast, timezoneOffsetMs, tzMin) ==
  LET rainChance == calculateRainChance(forecast)
      utcTime == forecast.dt * 1000
      localTime == utcTime + timezoneOffsetMs
      timeStr == TimeStr(localTime, tzMin)
  IN IF rainChance >= RAIN_THRESHOLD * FP
     THEN IF st.currentPeriod = Null
          THEN [st EXCEPT !.currentPeriod =
                 [startTime |-> timeStr,
                  startHour |-> GetHours(localTime, tzMin),
                  endTime |-> timeStr,
                  endHour |-> GetHours(localTime, tzMin),
                  maxChance |-> rainChance,
                  forecasts |-> <<[time |-> timeStr, chance |-> rainChance]>>]]
          ELSE [st EXCEPT !.currentPeriod =
                 [startTime |-> st.currentPeriod.startTime,
                  startHour |-> st.currentPeriod.startHour,
                  endTime |-> timeStr,
                  endHour |-> GetHours(localTime, tzMin),
                  maxChance |-> st.currentPeriod.maxChance,
                  forecasts |-> Append(st.currentPeriod.forecasts,
                                       [time |-> timeStr, chance |-> rainChance])]]
     ELSE IF st.currentPeriod # Null
          THEN [rainPeriods |-> Append(st.rainPeriods, st.currentPeriod),
                currentPeriod |-> Null]
          ELSE st

\* one turn of the forEach: st = [rainPeriods, currentPeriod]
RainStep(st, forecast, timezoneOffsetMs, tzMin) ==
  LET rainChance == calculateRainChance(forecast)
      utcTime == forecast.dt * 1000
      localTime == utcTime + timezoneOffsetMs
      timeStr == TimeStr(localTime, tzMin)
  IN IF rainChance >= RAIN_THRESHOLD * FP
     THEN IF st.currentPeriod = Null
          THEN [st EXCEPT !.currentPeriod =
                 [startTime |-> timeStr,
                  startHour |-> GetHours(localTime, tzMin),
                  endTime |-> timeStr,
                  endHour |-> GetHours(localTime, tzMin),
                  maxChance |-> rainChance,
                  forecasts |-> <<[time |-> timeStr, chance |-> rainChance]>>]]
          ELSE [st EXCEPT !.currentPeriod =
                 [startTime |-> st.currentPeriod.startTime,
                  startHour |-> st.currentPeriod.startHour,
                  endTime |-> timeStr,
                  endHour |-> GetHours(localTime, tzMin),
                  maxChance |-> Max2(st.currentPeriod.maxChance, rainChance),
                  forecasts |-> Append(st.currentPeriod.forecasts,
                                       [time |-> timeStr, chance |-> rainChance])]]
     ELSE IF st.currentPeriod # Null
          THEN [rainPeriods |-> Append(st.rainPeriods, st.currentPeriod),
                currentPeriod |-> Null]
          ELSE st

RECURSIVE RainLoop(_, _, _, _, _)
RainLoop(st, forecasts, i, timezoneOffsetMs, tzMin) ==
  IF i > Len(forecasts) THEN st
  ELSE RainLoop(RainStep(st, forecasts[i], timezoneOffsetMs, tzMin),
                forecasts, i + 1, timezoneOffsetMs, tzMin)

analyzeRainTiming(forecasts, tzMin) ==
  LET timezoneOffsetMs == FirstTimezoneOffset(forecasts)
      st == RainLoop([rainPeriods |-> <<>>, currentPeriod |-> Null],
                     forecasts, 1, timezoneOffsetMs, tzMin)
      rainPeriods == IF st.currentPeriod # Null
                     THEN Append(st.rainPeriods, st.currentPeriod)
                     ELSE st.rainPeriods
  IN [periods |-> rainPeriods,
      hasRain |-> Len(rainPeriods) > 0,
      summary |-> generateRainSummary(rainPeriods)]

(***************************************************************************)
(* WeatherAnalyzer.analyzeTimeBasedConditions                              *)
(***************************************************************************)
periodKeys == <<"morning", "afternoon", "evening">>

\* the periods with the afternoon starting an hour late
periodDefs_LateAfternoon ==
  [morning |-> [start |-> 6, end |-> 12, name |-> "Morning"],
   afternoon |-> [start |-> 13, end |-> 18, name |-> "Afternoon"],
   evening |-> [start |-> 18, end |-> 24, name |-> "Evening"]]

periodDefs ==
  [morning |-> [start |-> 6, end |-> 12, name |-> "Morning"],
   afternoon |-> [start |-> 12, end |-> 18, name |-> "Afternoon"],
   evening |-> [start |-> 18, end |-> 24, name |-> "Evening"]]

HourInPeriod(hour, periodKey) ==
  hour >= periodDefs[periodKey].start /\ hour < periodDefs[periodKey].end

\* the inner for loop with its break: the first period, in key order, that takes the hour
RECURSIVE FirstPeriodFrom(_, _)
FirstPeriodFrom(hour, k) ==
  IF k > Len(periodKeys) THEN "none"
  ELSE IF HourInPeriod(hour, periodKeys[k]) THEN periodKeys[k]
  ELSE FirstPeriodFrom(hour, k + 1)

PeriodOfHour(hour) == FirstPeriodFrom(hour, 1)

\* {...forecast, localTime, hour}
WithLocalTime(forecast, localTime, hour) ==
  [k \in DOMAIN forecast \cup {"localTime", "hour"} |->
     IF k = "localTime" THEN localTime
     ELSE IF k = "hour" THEN hour
     ELSE forecast[k]]

\* period.forecasts after the grouping loop
GroupForecasts(forecasts, periodKey, tzMin) ==
  LET timezoneOffsetMs == FirstTimezoneOffset(forecasts)
      LocalTimeOf(forecast) == forecast.dt * 1000 + timezoneOffsetMs
      Pushed(forecast) ==
        PeriodOfHour(GetHours(LocalTimeOf(forecast), tzMin)) = periodKey
      kept == SelectSeq(forecasts, Pushed)
  IN [i \in 1..Len(kept) |->
        WithLocalTime(kept[i], LocalTimeOf(kept[i]),
                      GetHours(LocalTimeOf(kept[i]), tzMin))]

RECURSIVE SumTemp(_)
SumTemp(fs) == IF Len(fs) = 0 THEN 0 ELSE fs[1].main.temp + SumTemp(Tail(fs))

RECURSIVE MaxRainFrom(_, _)
MaxRainFrom(acc, fs) ==
  IF Len(fs) = 0 THEN acc
  ELSE MaxRainFrom(Max2(acc, calculateRainChance(fs[1])), Tail(fs))

\* Math.max over forecast.wind.speed * 2.237, held as mph * FP * FP
MPH_FACTOR == 2237

RECURSIVE MaxWindFrom(_, _)
MaxWindFrom(acc, fs) ==
  IF Len(fs) = 0 THEN acc
  ELSE MaxWindFrom(Max2(acc, fs[1].wind.speed * MPH_FACTOR), Tail(fs))

\* AnalyzePeriod that takes the highest temperature of the segment
AnalyzePeriod_MaxTemp(periodKey, pf, tzMin) ==
  IF Len(pf) = 0 THEN Null
  ELSE LET totalTemp == SumTemp(pf)
           maxRainChance == MaxRainFrom(0, pf)
           maxWind == MaxWindFrom(0, pf)
           avgTemp == Round(MaxOfSeq([i \in 1..Len(pf) |-> pf[i].main.temp]), FP)
       IN [name |-> periodDefs[periodKey].name,
           avgTemp |-> avgTemp,
           maxRainChance |-> Round(maxRainChance, FP),
           maxWind |-> Round(maxWind, FP * FP),
           startTime |-> HourStr(pf[1].localTime, tzMin),
           endTime |-> HourStr(pf[Len(pf)].localTime, tzMin),
           forecasts |-> pf]

AnalyzePeriod(periodKey, pf, tzMin) ==
  IF Len(pf) = 0 THEN Null
  ELSE LET totalTemp == SumTemp(pf)
           maxRainChance == MaxRainFrom(0, pf)
           maxWind == MaxWindFrom(0, pf)
           avgTemp == Round(totalTemp, Len(pf) * FP)
       IN [name |-> periodDefs[periodKey].name,
           avgTemp |-> avgTemp,
           maxRainChance |-> Round(maxRainChance, FP),
           maxWind |-> Round(maxWind, FP * FP),
           startTime |-> HourStr(pf[1].localTime, tzMin),
           endTime |-> HourStr(pf[Len(pf)].localTime, tzMin),
           forecasts |-> pf]

analyzeTimeBasedConditions(forecasts, tzMin) ==
  [periodKey \in {"morning", "afternoon", "evening"} |->
     AnalyzePeriod(periodKey, GroupForecasts(forecasts, periodKey, tzMin), tzMin)]

(***************************************************************************)
(* WeatherAnalyzer.analyzeForecasts                                        *)
(***************************************************************************)
RECURSIVE MaxTempFrom(_)
MaxTempFrom(fs) ==
  IF Len(fs) = 1 THEN Round(fs[1].main.temp, FP)
  ELSE Max2(Round(fs[1].main.temp, FP), MaxTempFrom(Tail(fs)))

RECURSIVE MaxWindMphFrom(_)
MaxWindMphFrom(fs) ==
  IF Len(fs) = 1 THEN Round(fs[1].wind.speed * MPH_FACTOR, FP * FP)
  ELSE Max2(Round(fs[1].wind.speed * MPH_FACTOR, FP * FP), MaxWindMphFrom(Tail(fs)))

\* analyzeForecasts reporting the rounded average temperature as maxTemp
analyzeForecasts_Average(forecasts, tzMin) ==
  [maxTemp |-> Round(SumTemp(forecasts), Len(forecasts) * FP),
   minRain |-> Round(MaxRainFrom(0, forecasts), FP),
   maxWind |-> MaxWindMphFrom(forecasts),
   rainTiming |-> analyzeRainTiming(forecasts, tzMin),
   timeBasedAnalysis |-> analyzeTimeBasedConditions(forecasts, tzMin)]

analyzeForecasts(forecasts, tzMin) ==
  [maxTemp |-> MaxTempFrom(forecasts),
   minRain |-> Round(MaxRainFrom(0, forecasts), FP),
   maxWind |-> MaxWindMphFrom(forecasts),
   rainTiming |-> analyzeRainTiming(forecasts, tzMin),
   timeBasedAnalysis |-> analyzeTimeBasedConditions(forecasts, tzMin)]

(***************************************************************************)
(* WeatherAnalyzer.getConfigurationString, getTimePhrase,                  *)
(* getRecommendationReason, getTemperatureRange                            *)
(***************************************************************************)
\* getConfigurationString that tells only top off from top on
getConfigurationString_TopOnly(topOff, doorsOff) ==
  IF topOff THEN "top-off" ELSE "both-on"

getConfigurationString(topOff, doorsOff) ==
  IF topOff /\ doorsOff THEN "both-off"
  ELSE IF topOff /\ ~doorsOff THEN "top-off"
  ELSE "both-on"

\* String.prototype.toLowerCase on the period names
ToLowerCase(name) ==
  CASE name = "Morning" -> "morning"
    [] name = "Afternoon" -> "afternoon"
    [] name = "Evening" -> "evening"
    [] OTHER -> name

getTimePhrase(periods) ==
  IF Len(periods) = 1
  THEN LET period == ToLowerCase(periods[1].period)
       IN IF period = "morning" THEN "This morning"
          ELSE IF period = "afternoon" THEN "This afternoon"
          ELSE IF period = "evening" THEN "This evening"
          ELSE period
  ELSE IF Len(periods) = 2
  THEN ToLowerCase(periods[1].period) \o " and " \o ToLowerCase(periods[2].period)
  ELSE "all day"

\* getRecommendationReason that takes the lowest rain chance of the run
getRecommendationReason_LeastRain(periods, st) ==
  LET maxTemp == MaxOfSeq([i \in 1..Len(periods) |-> periods[i].temp])
      maxRain == MinOfSeq([i \in 1..Len(periods) |-> periods[i].rainChance])
      maxWind == MaxOfSeq([i \in 1..Len(periods) |-> periods[i].windSpeed])
      reasons ==
        (IF maxTemp < st.tempThresholdTopOff
         THEN <<"temperature only reaching " \o ToString(maxTemp) \o "°F">> ELSE <<>>)
        \o (IF maxRain >= st.rainChanceThreshold
            THEN <<ToString(maxRain) \o "% chance of rain">> ELSE <<>>)
        \o (IF maxWind >= st.windSpeedThreshold
            THEN <<"winds up to " \o ToString(maxWind) \o " mph">> ELSE <<>>)
  IN IF Len(reasons) > 0 THEN " (" \o JoinStr(reasons, ", ") \o ")" ELSE ""

getRecommendationReason(periods, st) ==
  LET maxTemp == MaxOfSeq([i \in 1..Len(periods) |-> periods[i].temp])
      maxRain == MaxOfSeq([i \in 1..Len(periods) |-> periods[i].rainChance])
      maxWind == MaxOfSeq([i \in 1..Len(periods) |-> periods[i].windSpeed])
      reasons ==
        (IF maxTemp < st.tempThresholdTopOff
         THEN <<"temperature only reaching " \o ToString(maxTemp) \o "°F">> ELSE <<>>)
        \o (IF maxRain >= st.rainChanceThreshold
            THEN <<ToString(maxRain) \o "% chance of rain">> ELSE <<>>)
        \o (IF maxWind >= st.windSpeedThreshold
            THEN <<"winds up to " \o ToString(maxWind) \o " mph">> ELSE <<>>)
  IN IF Len(reasons) > 0 THEN " (" \o JoinStr(reasons, ", ") \o ")" ELSE ""

getTemperatureRange(validPeriods, periodRecommendations) ==
  LET temps == [i \in 1..Len(validPeriods) |-> periodRecommendations[validPeriods[i]].temp]
      min == MinOfSeq(temps)
      max == MaxOfSeq(temps)
  IN IF min = max THEN ToString(min) \o "°F"
     ELSE ToString(min) \o "°F - " \o ToString(max) \o "°F"

\* String.prototype.replace(pattern, replacement) with a string pattern: the first occurrence
RECURSIVE ReplaceFrom(_, _, _, _)
ReplaceFrom(str, pat, rep, i) ==
  IF i + Len(pat) - 1 > Len(str) THEN str
  ELSE IF SubSeq(str, i, i + Len(pat) - 1) = pat
  THEN SubSeq(str, 1, i - 1) \o rep \o SubSeq(str, i + Len(pat), Len(str))
  ELSE ReplaceFrom(str, pat, rep, i + 1)

Replace(str, pat, rep) == ReplaceFrom(str, pat, rep, 1)

(***************************************************************************)
(* WeatherAnalyzer.generateTimeSpecificRecommendations                     *)
(***************************************************************************)
\* the sentence opens with the light-bulb emoji U+1F4A1, written here as (i)
TRANSITION_TIP ==
  "(i) Pro tip: Consider your plans and comfort when making changes throughout the day"

\* the grouping forEach: st = [groups, currentGroup]
GroupStep(st, period) ==
  LET config == getConfigurationString(period.topOff, period.doorsOff)
  IN IF st.currentGroup = Null \/ st.currentGroup.config # config
     THEN [groups |-> IF st.currentGroup # Null
                      THEN Append(st.groups, st.currentGroup) ELSE st.groups,
           currentGroup |-> [config |-> config,
                             periods |-> <<period>>,
                             startTime |-> period.startTime,
                             endTime |-> period.endTime,
                             topOff |-> period.topOff,
                             doorsOff |-> period.doorsOff]]
     ELSE [st EXCEPT !.currentGroup =
             [config |-> st.currentGroup.config,
              periods |-> Append(st.currentGroup.periods, period),
              startTime |-> st.currentGroup.startTime,
              endTime |-> period.endTime,
              topOff |-> st.currentGroup.topOff,
              doorsOff |-> st.currentGroup.doorsOff]]

RECURSIVE GroupLoop(_, _, _, _)
GroupLoop(st, validPeriods, periodRecommendations, i) ==
  IF i > Len(validPeriods) THEN st
  ELSE GroupLoop(GroupStep(st, periodRecommendations[validPeriods[i]]),
                 validPeriods, periodRecommendations, i + 1)

GroupPeriods(validPeriods, periodRecommendations) ==
  LET st == GroupLoop([groups |-> <<>>, currentGroup |-> Null],
                      validPeriods, periodRecommendations, 1)
  IN IF st.currentGroup # Null THEN Append(st.groups, st.currentGroup) ELSE st.groups

GroupSentence(group, st) ==
  LET timePhrase == getTimePhrase(group.periods)
      reason == getRecommendationReason(group.periods, st)
  IN IF group.topOff /\ group.doorsOff
     THEN IF timePhrase = "all day"
          THEN "Perfect weather all day! Both top and doors off recommended" \o reason
          ELSE timePhrase \o ": Perfect for both top and doors off" \o reason
     ELSE IF group.topOff /\ ~group.doorsOff
     THEN IF timePhrase = "all day"
          THEN "Good day for top off, but keep doors on all day" \o reason
          ELSE timePhrase \o ": Take the top off, but keep doors on" \o reason
     ELSE IF timePhrase = "all day"
          THEN "Keep both top and doors on today" \o reason
          ELSE timePhrase \o ": Keep top and doors on" \o reason

\* generateTimeSpecificRecommendations that appends the tip whenever the day has
\* more than one valid segment
generateTimeSpecificRecommendations_TipPerDay(validPeriods, periodRecommendations, st) ==
  IF Len(validPeriods) = 0
  THEN <<"No forecast data available for specific time recommendations">>
  ELSE
    LET groups == GroupPeriods(validPeriods, periodRecommendations)
        sentences == [i \in 1..Len(groups) |-> GroupSentence(groups[i], st)]
        hasChanges == \E index \in 2..Len(groups) :
                        \/ groups[index].topOff # groups[index - 1].topOff
                        \/ groups[index].doorsOff # groups[index - 1].doorsOff
        recommendations ==
          IF Len(validPeriods) > 1
          THEN Append(sentences, TRANSITION_TIP) ELSE sentences
    IN IF Len(recommendations) = 1 /\ Len(validPeriods) > 1
       THEN LET tempRange == getTemperatureRange(validPeriods, periodRecommendations)
            IN <<Replace(recommendations[1], "all day", "all day (" \o tempRange \o ")")>>
       ELSE recommendations

\* generateTimeSpecificRecommendations that never appends the tip
generateTimeSpecificRecommendations_NoTip(validPeriods, periodRecommendations, st) ==
  IF Len(validPeriods) = 0
  THEN <<"No forecast data available for specific time recommendations">>
  ELSE
    LET groups == GroupPeriods(validPeriods, periodRecommendations)
        sentences == [i \in 1..Len(groups) |-> GroupSentence(groups[i], st)]
        hasChanges == \E index \in 2..Len(groups) :
                        \/ groups[index].topOff # groups[index - 1].topOff
                        \/ groups[index].doorsOff # groups[index - 1].doorsOff
        recommendations ==
          IF Len(groups) > 1 /\ hasChanges THEN sentences ELSE sentences
    IN IF Len(recommendations) = 1 /\ Len(validPeriods) > 1
       THEN LET tempRange == getTemperatureRange(validPeriods, periodRecommendations)
            IN <<Replace(recommendations[1], "all day", "all day (" \o tempRange \o ")")>>
       ELSE recommendations

generateTimeSpecificRecommendations(validPeriods, periodRecommendations, st) ==
  IF Len(validPeriods) = 0
  THEN <<"No forecast data available for specific time recommendations">>
  ELSE
    LET groups == GroupPeriods(validPeriods, periodRecommendations)
        sentences == [i \in 1..Len(groups) |-> GroupSentence(groups[i], st)]
        hasChanges == \E index \in 2..Len(groups) :
                        \/ groups[index].topOff # groups[index - 1].topOff
                        \/ groups[index].doorsOff # groups[index - 1].doorsOff
        recommendations ==
          IF Len(groups) > 1 /\ hasChanges
          THEN Append(sentences, TRANSITION_TIP) ELSE sentences
    IN IF Len(recommendations) = 1 /\ Len(validPeriods) > 1
       THEN LET tempRange == getTemperatureRange(validPeriods, periodRecommendations)
            IN <<Replace(recommendations[1], "all day", "all day (" \o tempRange \o ")")>>
       ELSE recommendations

(***************************************************************************)
(* WeatherAnalyzer.analyzeWeatherPatterns                                  *)
(***************************************************************************)
\* analyzeWeatherPatterns that takes a day for consistent only when every segment
\* has the top off
analyzeWeatherPatterns_AllTopOffOnly(validPeriods, periodRecommendations) ==
  LET IsTopOff(p) == periodRecommendations[p].topOff
      IsDoorsOff(p) == periodRecommendations[p].doorsOff
      topOffCount == Len(SelectSeq(validPeriods, IsTopOff))
      doorsOffCount == Len(SelectSeq(validPeriods, IsDoorsOff))
  IN [consistentGoodWeather |-> topOffCount = Len(validPeriods),
      allTopOff |-> topOffCount = Len(validPeriods),
      allDoorsOff |-> doorsOffCount = Len(validPeriods),
      variableConditions |-> topOffCount > 0 /\ topOffCount < Len(validPeriods)]

analyzeWeatherPatterns(validPeriods, periodRecommendations) ==
  LET IsTopOff(p) == periodRecommendations[p].topOff
      IsDoorsOff(p) == periodRecommendations[p].doorsOff
      topOffCount == Len(SelectSeq(validPeriods, IsTopOff))
      doorsOffCount == Len(SelectSeq(validPeriods, IsDoorsOff))
  IN [consistentGoodWeather |-> topOffCount = Len(validPeriods) \/ topOffCount = 0,
      allTopOff |-> topOffCount = Len(validPeriods),
      allDoorsOff |-> doorsOffCount = Len(validPeriods),
      variableConditions |-> topOffCount > 0 /\ topOffCount < Len(validPeriods)]

(***************************************************************************)
(* WeatherAnalyzer.generateIntelligentRecommendations                      *)
(***************************************************************************)
\* periods.filter(p => periodRecommendations[p])
ValidPeriods(periodRecommendations) ==
  LET HasData(p) == p \in DOMAIN periodRecommendations
  IN SelectSeq(periodKeys, HasData)

\* generateIntelligentRecommendations without the return on no valid period
generateIntelligentRecommendations_NoEmptyGuard(periodRecommendations, st) ==
  LET validPeriods == ValidPeriods(periodRecommendations)
      patterns == analyzeWeatherPatterns(validPeriods, periodRecommendations)
  IN IF patterns.consistentGoodWeather
     THEN IF patterns.allDoorsOff
          THEN <<"Perfect weather all day! Keep both top and doors off.">>
          ELSE IF patterns.allTopOff
          THEN <<"Great weather for the top off all day, but keep doors on due to wind or temperature.">>
          ELSE <<"Weather conditions suggest keeping top and doors on today.">>
     ELSE generateTimeSpecificRecommendations(validPeriods, periodRecommendations, st)

\* generateIntelligentRecommendations that tests allTopOff before allDoorsOff
generateIntelligentRecommendations_TopFirst(periodRecommendations, st) ==
  LET validPeriods == ValidPeriods(periodRecommendations)
  IN IF Len(validPeriods) = 0
     THEN <<"No detailed forecast available for today">>
     ELSE LET patterns == analyzeWeatherPatterns(validPeriods, periodRecommendations)
          IN IF patterns.consistentGoodWeather
             THEN IF patterns.allTopOff
                  THEN <<"Great weather for the top off all day, but keep doors on due to wind or temperature.">>
                  ELSE IF patterns.allDoorsOff
                  THEN <<"Perfect weather all day! Keep both top and doors off.">>
                  ELSE <<"Weather conditions suggest keeping top and doors on today.">>
             ELSE generateTimeSpecificRecommendations(validPeriods, periodRecommendations, st)

generateIntelligentRecommendations(periodRecommendations, st) ==
  LET validPeriods == ValidPeriods(periodRecommendations)
  IN IF Len(validPeriods) = 0
     THEN <<"No detailed forecast available for today">>
     ELSE LET patterns == analyzeWeatherPatterns(validPeriods, periodRecommendations)
          IN IF patterns.consistentGoodWeather
             THEN IF patterns.allDoorsOff
                  THEN <<"Perfect weather all day! Keep both top and doors off.">>
                  ELSE IF patterns.allTopOff
                  THEN <<"Great weather for the top off all day, but keep doors on due to wind or temperature.">>
                  ELSE <<"Weather conditions suggest keeping top and doors on today.">>
             ELSE generateTimeSpecificRecommendations(validPeriods, periodRecommendations, st)

(***************************************************************************)
(* WeatherAnalyzer.generateTimeBasedRecommendations                        *)
(***************************************************************************)
\* PeriodRecommendation whose doorsOff does not look at the rain
PeriodRecommendation_DoorsInRain(period, st) ==
  LET topOff == /\ period.avgTemp >= st.tempThresholdTopOff
                /\ period.maxRainChance < st.rainChanceThreshold
      doorsOff == /\ period.avgTemp >= st.tempThresholdDoorsOff
                  /\ period.maxWind < st.windSpeedThreshold
  IN [period |-> period.name,
      topOff |-> topOff,
      doorsOff |-> doorsOff,
      temp |-> period.avgTemp,
      rainChance |-> period.maxRainChance,
      windSpeed |-> period.maxWind,
      startTime |-> period.startTime,
      endTime |-> period.endTime]

PeriodRecommendation(period, st) ==
  LET topOff == /\ period.avgTemp >= st.tempThresholdTopOff
                /\ period.maxRainChance < st.rainChanceThreshold
      doorsOff == /\ period.avgTemp >= st.tempThresholdDoorsOff
                  /\ period.maxRainChance < st.rainChanceThreshold
                  /\ period.maxWind < st.windSpeedThreshold
  IN [period |-> period.name,
      topOff |-> topOff,
      doorsOff |-> doorsOff,
      temp |-> period.avgTemp,
      rainChance |-> period.maxRainChance,
      windSpeed |-> period.maxWind,
      startTime |-> period.startTime,
      endTime |-> period.endTime]

\* timeBasedAnalysis is always an object here, so the early return on a missing
\* analysis is never taken
generateTimeBasedRecommendations(timeBasedAnalysis, st) ==
  LET periodRecommendations ==
        [periodKey \in {k \in DOMAIN timeBasedAnalysis : timeBasedAnalysis[k] # Null} |->
           PeriodRecommendation(timeBasedAnalysis[periodKey], st)]
  IN [periods |-> periodRecommendations,
      recommendations |-> generateIntelligentRecommendations(periodRecommendations, st)]

(***************************************************************************)
(* WeatherAnalyzer.generateRecommendations                                 *)
(***************************************************************************)
\* generateRecommendations accepting a rain chance equal to the threshold
generateRecommendations_RainAtThreshold(conditions, st) ==
  LET topOff == /\ conditions.maxTemp >= st.tempThresholdTopOff
                /\ conditions.minRain <= st.rainChanceThreshold
      doorsOff == /\ conditions.maxTemp >= st.tempThresholdDoorsOff
                  /\ conditions.minRain <= st.rainChanceThreshold
                  /\ conditions.maxWind < st.windSpeedThreshold
  IN [topOff |-> topOff,
      doorsOff |-> doorsOff,
      timeBasedRecommendations |->
        generateTimeBasedRecommendations(conditions.timeBasedAnalysis, st)]

generateRecommendations(conditions, st) ==
  LET topOff == /\ conditions.maxTemp >= st.tempThresholdTopOff
                /\ conditions.minRain < st.rainChanceThreshold
      doorsOff == /\ conditions.maxTemp >= st.tempThresholdDoorsOff
                  /\ conditions.minRain < st.rainChanceThreshold
                  /\ conditions.maxWind < st.windSpeedThreshold
  IN [topOff |-> topOff,
      doorsOff |-> doorsOff,
      timeBasedRecommendations |->
        generateTimeBasedRecommendations(conditions.timeBasedAnalysis, st)]

(***************************************************************************)
(* WeatherAnalyzer.evaluateConditions: the thrown error or the result      *)
(***************************************************************************)
NO_FORECAST_ERROR == "No weather forecast data available for today"

\* {...recommendations, ...conditions, cityName, lastUpdated}
evaluateConditions(wd, st, nowMs, tzMin) ==
  LET cityName == IF IsSome(wd.city) THEN wd.city[1].name ELSE "Unknown Location"
      lastUpdated == IF IsSome(wd.cacheTimestamp) /\ wd.cacheTimestamp[1] # 0
                     THEN wd.cacheTimestamp[1] ELSE nowMs
      today == getTodayForecasts(wd, nowMs, tzMin)
  IN IF Len(today) = 0
     THEN [thrown |-> NO_FORECAST_ERROR]
     ELSE LET conditions == analyzeForecasts(today, tzMin)
              recommendations == generateRecommendations(conditions, st)
          IN [topOff |-> recommendations.topOff,
              doorsOff |-> recommendations.doorsOff,
              timeBasedRecommendations |-> recommendations.timeBasedRecommendations,
              maxTemp |-> conditions.maxTemp,
              minRain |-> conditions.minRain,
              maxWind |-> conditions.maxWind,
              rainTiming |-> conditions.rainTiming,
              timeBasedAnalysis |-> conditions.timeBasedAnalysis,
              cityName |-> cityName,
              lastUpdated |-> lastUpdated]

(***************************************************************************)
(* WeatherAnalyzer.getRecommendationExplanations.  The three emoji that    *)
(* open the lines are written (rec), (tip) and (details).                  *)
(***************************************************************************)
\* getRecommendationExplanations that pushes the technical details before the tip
getRecommendationExplanations_DetailsFirst(conditions, st) ==
  LET recs == conditions.timeBasedRecommendations.recommendations
      timeBased == [i \in 1..Len(recs) |-> "(rec) " \o recs[i]]
      technicalDetails ==
        (IF conditions.maxTemp < st.tempThresholdTopOff
         THEN <<"Temperature too low (" \o ToString(conditions.maxTemp) \o "°F < "
                  \o ToString(st.tempThresholdTopOff) \o "°F)">>
         ELSE <<>>)
        \o (IF conditions.maxTemp < st.tempThresholdDoorsOff
            THEN <<"Temperature too low for doors off (" \o ToString(conditions.maxTemp)
                     \o "°F < " \o ToString(st.tempThresholdDoorsOff) \o "°F)">>
            ELSE <<>>)
        \o (IF conditions.minRain >= st.rainChanceThreshold
            THEN <<"Rain chance too high (" \o ToString(conditions.minRain) \o "% >= "
                     \o ToString(st.rainChanceThreshold) \o "%)"
                     \o " - " \o conditions.rainTiming.summary>>
            ELSE <<>>)
        \o (IF conditions.maxWind >= st.windSpeedThreshold
            THEN <<"Wind too strong for doors off (" \o ToString(conditions.maxWind)
                     \o " mph >= " \o ToString(st.windSpeedThreshold) \o " mph)">>
            ELSE <<>>)
      planningTip ==
        IF conditions.minRain < st.rainChanceThreshold /\ conditions.rainTiming.hasRain
        THEN <<"(tip) Planning tip: " \o conditions.rainTiming.summary>>
        ELSE <<>>
      details ==
        IF Len(technicalDetails) > 0
        THEN <<"(details) Technical details: " \o JoinStr(technicalDetails, "; ")>>
        ELSE <<>>
  IN timeBased \o details \o planningTip

\* getRecommendationExplanations that gives no detail for the wind
getRecommendationExplanations_NoWindDetail(conditions, st) ==
  LET recs == conditions.timeBasedRecommendations.recommendations
      timeBased == [i \in 1..Len(recs) |-> "(rec) " \o recs[i]]
      technicalDetails ==
        (IF conditions.maxTemp < st.tempThresholdTopOff
         THEN <<"Temperature too low (" \o ToString(conditions.maxTemp) \o "°F < "
                  \o ToString(st.tempThresholdTopOff) \o "°F)">>
         ELSE <<>>)
        \o (IF conditions.maxTemp < st.tempThresholdDoorsOff
            THEN <<"Temperature too low for doors off (" \o ToString(conditions.maxTemp)
                     \o "°F < " \o ToString(st.tempThresholdDoorsOff) \o "°F)">>
            ELSE <<>>)
        \o (IF conditions.minRain >= st.rainChanceThreshold
            THEN <<"Rain chance too high (" \o ToString(conditions.minRain) \o "% >= "
                     \o ToString(st.rainChanceThreshold) \o "%)"
                     \o " - " \o conditions.rainTiming.summary>>
            ELSE <<>>)
      planningTip ==
        IF conditions.minRain < st.rainChanceThreshold /\ conditions.rainTiming.hasRain
        THEN <<"(tip) Planning tip: " \o conditions.rainTiming.summary>>
        ELSE <<>>
      details ==
        IF Len(technicalDetails) > 0
        THEN <<"(details) Technical details: " \o JoinStr(technicalDetails, "; ")>>
        ELSE <<>>
  IN timeBased \o planningTip \o details

getRecommendationExplanations(conditions, st) ==
  LET recs == conditions.timeBasedRecommendations.recommendations
      timeBased == [i \in 1..Len(recs) |-> "(rec) " \o recs[i]]
      technicalDetails ==
        (IF conditions.maxTemp < st.tempThresholdTopOff
         THEN <<"Temperature too low (" \o ToString(conditions.maxTemp) \o "°F < "
                  \o ToString(st.tempThresholdTopOff) \o "°F)">>
         ELSE <<>>)
        \o (IF conditions.maxTemp < st.tempThresholdDoorsOff
            THEN <<"Temperature too low for doors off (" \o ToString(conditions.maxTemp)
                     \o "°F < " \o ToString(st.tempThresholdDoorsOff) \o "°F)">>
            ELSE <<>>)
        \o (IF conditions.minRain >= st.rainChanceThreshold
            THEN <<"Rain chance too high (" \o ToString(conditions.minRain) \o "% >= "
                     \o ToString(st.rainChanceThreshold) \o "%)"
                     \o " - " \o conditions.rainTiming.summary>>
            ELSE <<>>)
        \o (IF conditions.maxWind >= st.windSpeedThreshold
            THEN <<"Wind too strong for doors off (" \o ToString(conditions.maxWind)
                     \o " mph >= " \o ToString(st.windSpeedThreshold) \o " mph)">>
            ELSE <<>>)
      planningTip ==
        IF conditions.minRain < st.rainChanceThreshold /\ conditions.rainTiming.hasRain
        THEN <<"(tip) Planning tip: " \o conditions.rainTiming.summary>>
        ELSE <<>>
      details ==
        IF Len(technicalDetails) > 0
        THEN <<"(details) Technical details: " \o JoinStr(technicalDetails, "; ")>>
        ELSE <<>>
  IN timeBased \o planningTip \o details

(***************************************************************************)
(* The inputs: forecast feeds as the forecast API returns them (points in  *)
(* ascending time), the settings, the clock and the timezone of the        *)
(* machine.                                                                *)
(***************************************************************************)
Point(dt, temp, speed, pop, weather) ==
  [dt |-> dt, main |-> [temp |-> temp], wind |-> [speed |-> speed],
   pop |-> pop, weather |-> weather]

Code(id) == <<[id |-> id]>>

Feed(list, city) == [list |-> list, city |-> city, cacheTimestamp |-> None]

City(timezone) == Some([name |-> "Detroit", timezone |-> timezone])

DEFAULT_SETTINGS ==
  [tempThresholdTopOff |-> 60, tempThresholdDoorsOff |-> 65,
   rainChanceThreshold |-> 10, windSpeedThreshold |-> 15]

\* 1970-01-02T00:00:00Z, in seconds
Day1 == SecPerDay

RECURSIVE SortedSeq(_)
SortedSeq(S) ==
  IF S = {} THEN <<>>
  ELSE LET m == CHOOSE x \in S : \A y \in S : x <= y
       IN <<m>> \o SortedSeq(S \ {m})

\* the feed with one point at each of the given instants, of the given kinds
FeedList(T, kindOf) ==
  LET times == SortedSeq(T)
  IN [i \in 1..Len(times) |->
        Point(times[i], kindOf[times[i]].temp, kindOf[times[i]].speed,
              kindOf[times[i]].pop, kindOf[times[i]].weather)]

FeedLists(Slots, Kinds, n) ==
  UNION {{FeedList(T, kindOf) : kindOf \in [T -> Kinds]} :
           T \in {X \in SUBSET Slots : Cardinality(X) <= n}}

Kind(temp, speed, pop, weather) ==
  [temp |-> temp, speed |-> speed, pop |-> pop, weather |-> weather]

(***************************************************************************)
(* localStorage, as WeatherService and SettingsManager use it.  A stored   *)
(* item is the JSON text of a value made of numbers, strings, arrays and   *)
(* objects, for which JSON.parse(JSON.stringify(v)) is v: the item is held *)
(* as the value, None when the key is absent.                              *)
(***************************************************************************)
\* STORAGE_KEYS.SETTINGS
SETTINGS_KEY == "settings"

\* the cache keys `zip_${zipCode}` and `coords_${lat}_${lon}` of two places
CacheKeys == {"zip_48226", "coords_42.33_-83.05"}

\* `${STORAGE_KEYS.WEATHER_CACHE}_${key}`
CacheItemKey(key) == "weatherCache_" \o key

StorageKeys == {SETTINGS_KEY} \cup {CacheItemKey(key) : key \in CacheKeys}

EmptyStorage == [k \in StorageKeys |-> None]

\* WEATHER_CONFIG.CACHE_DURATION, in ms
CACHE_DURATION == 1000 * 1

\* WeatherService.cacheWeather: the storage after the call
cacheWeather(storage, key, data, nowMs) ==
  [storage EXCEPT ![CacheItemKey(key)] = Some([data |-> data, timestamp |-> nowMs])]

\* WeatherService.getCachedWeather: the value returned and the storage after the call
getCachedWeather(storage, key, nowMs) ==
  LET cached == storage[CacheItemKey(key)]
  IN IF IsSome(cached)
     THEN LET isExpired == nowMs - cached[1].timestamp > CACHE_DURATION
          IN IF ~isExpired
             THEN [returned |-> [cached[1].data EXCEPT
                                   !.cacheTimestamp = Some(cached[1].timestamp)],
                   storage |-> storage]
             ELSE [returned |-> Null,
                   storage |-> [storage EXCEPT ![CacheItemKey(key)] = None]]
     ELSE [returned |-> Null, storage |-> storage]

\* WeatherService.clearCache: the storage after the call
clearCache(storage) ==
  [k \in StorageKeys |-> IF k = SETTINGS_KEY THEN storage[k] ELSE None]

\* Number(value) || fallback, for a form value that is a number (Some) or not
\* a number (None): 0 and NaN are falsy
NumberOr(value, fallback) ==
  IF IsSome(value) /\ value[1] # 0 THEN value[1] ELSE fallback

\* SettingsManager.validateSettings
validateSettings(st) ==
  [tempThresholdTopOff |->
     Max2(20, Min2(100, NumberOr(st.tempThresholdTopOff,
                                 DEFAULT_SETTINGS.tempThresholdTopOff))),
   tempThresholdDoorsOff |->
     Max2(20, Min2(100, NumberOr(st.tempThresholdDoorsOff,
                                 DEFAULT_SETTINGS.tempThresholdDoorsOff))),
   rainChanceThreshold |->
     Max2(0, Min2(100, NumberOr(st.rainChanceThreshold,
                                DEFAULT_SETTINGS.rainChanceThreshold))),
   windSpeedThreshold |->
     Max2(0, Min2(50, NumberOr(st.windSpeedThreshold,
                               DEFAULT_SETTINGS.windSpeedThreshold)))]

\* SettingsManager.getSettings: { ...DEFAULT_SETTINGS, ...JSON.parse(stored) }
getSettings(storage) ==
  IF IsSome(storage[SETTINGS_KEY])
  THEN [k \in DOMAIN DEFAULT_SETTINGS \cup DOMAIN storage[SETTINGS_KEY][1] |->
          IF k \in DOMAIN storage[SETTINGS_KEY][1]
          THEN storage[SETTINGS_KEY][1][k] ELSE DEFAULT_SETTINGS[k]]
  ELSE DEFAULT_SETTINGS

\* no call of the services yet
ServiceIdle ==
  /\ localStorage = EmptyStorage
  /\ serviceCall = [op |-> "none"]
  /\ serviceReturn = Null

\* no analysis in progress
AnalysisIdle ==
  /\ weatherData = Feed(<<>>, None)
  /\ settings = DEFAULT_SETTINGS
  /\ browserTzMin = 0
  /\ pc = "service"
  /\ todayForecasts = <<>>
  /\ result = Null
  /\ explanations = <<>>
  /\ timeSpecificRecs = <<>>

(***************************************************************************)
(* SpecCache: the weather cache of WeatherService over two keys and two    *)
(* responses, on a clock that stops at the instants around the cache       *)
(* duration and around ten minutes.                                        *)
(***************************************************************************)
TEN_MINUTES == 10 * 60 * 1000

ClockInstants ==
  {0, CACHE_DURATION, CACHE_DURATION + 1, TEN_MINUTES, TEN_MINUTES + 1}

Responses ==
  {Feed(<<>>, City(Some(0))),
   Feed(<<Point(Day1 + 12 * SecPerHour, 70000, 2000, Some(0), Code(800))>>, None)}

InitCache ==
  /\ AnalysisIdle
  /\ ServiceIdle
  /\ now = 0

(***************************************************************************)
(* SpecSettings: SettingsManager on the values a settings form can hand    *)
(* over: numbers below, at, inside and above each range, and no number.    *)
(***************************************************************************)
TopOffInputs == {None, Some(0), Some(19), Some(20), Some(60), Some(100), Some(101)}
DoorsOffInputs == {Some(0 - 5), Some(65), Some(150)}
RainInputs == {None, Some(0 - 1), Some(0), Some(1), Some(100), Some(101)}
WindInputs == {None, Some(0 - 1), Some(0), Some(15), Some(50), Some(51)}

FormSettings ==
  [tempThresholdTopOff : TopOffInputs, tempThresholdDoorsOff : DoorsOffInputs,
   rainChanceThreshold : RainInputs, windSpeedThreshold : WindInputs]

InitSettings ==
  /\ AnalysisIdle
  /\ ServiceIdle
  /\ now = 0

(***************************************************************************)
(* Spec: short feeds of one day, at UTC, with temperatures, winds and rain *)
(* on both sides of the thresholds, and several settings.                  *)
(***************************************************************************)
DaySlots == {Day1 + h * SecPerHour : h \in {3, 6, 11, 12, 17, 18}}

DayKinds ==
  {Kind(70000, 2000, Some(0), Code(800)),
   Kind(70000, 7000, Some(0), Code(800)),
   Kind(58400, 2000, Some(0), Code(800)),
   Kind(64500, 2000, Some(0), Code(800)),
   Kind(70000, 2000, Some(350), Code(800)),
   Kind(62000, 2000, Some(95), Code(501))}

SettingsSet ==
  {[tempThresholdTopOff |-> 60, tempThresholdDoorsOff |-> d,
    rainChanceThreshold |-> r, windSpeedThreshold |-> 15] :
     d \in {65, 60, 55}, r \in {10, 40}}

Init ==
  /\ weatherData \in {Feed(l, City(Some(0))) : l \in FeedLists(DaySlots, DayKinds, MaxPoints)}
  /\ settings \in SettingsSet
  /\ now = (Day1 + 12 * SecPerHour) * 1000
  /\ browserTzMin = 0
  /\ pc = "loaded"
  /\ todayForecasts = <<>>
  /\ result = Null
  /\ explanations = <<>>
  /\ timeSpecificRecs = <<>>
  /\ ServiceIdle

(***************************************************************************)
(* SpecWindow: three-hourly feeds of up to MaxFeedLen points that start    *)
(* yesterday evening, today or tomorrow, seen at several instants from     *)
(* machines and for locations in several timezones.                        *)
(***************************************************************************)
CycleKinds ==
  <<Kind(70000, 2000, Some(0), Code(800)),
    Kind(58400, 2000, Some(350), Code(500)),
    Kind(64500, 7000, None, Code(501))>>

RegularFeed(start, n) ==
  [i \in 1..n |->
     LET k == CycleKinds[((i - 1) % Len(CycleKinds)) + 1]
     IN Point(start + (i - 1) * 3 * SecPerHour, k.temp, k.speed, k.pop, k.weather)]

WindowStarts == {Day1 - 3 * SecPerHour, Day1, Day1 + SecPerDay}
WindowNows == {(Day1 + h * SecPerHour) * 1000 : h \in {2, 14, 23}}
WindowCities == {None, City(None), City(Some(0)), City(Some(0 - 18000)), City(Some(32400))}
BrowserTzMins == {0, 300, 0 - 540}

InitWindow ==
  /\ weatherData \in {Feed(RegularFeed(start, n), city) :
                        start \in WindowStarts, n \in 0..MaxFeedLen, city \in WindowCities}
  /\ settings = DEFAULT_SETTINGS
  /\ now \in WindowNows
  /\ browserTzMin \in BrowserTzMins
  /\ pc = "loaded"
  /\ todayForecasts = <<>>
  /\ result = Null
  /\ explanations = <<>>
  /\ timeSpecificRecs = <<>>
  /\ ServiceIdle

(***************************************************************************)
(* SpecRain: feeds whose points differ in their rain information: one      *)
(* point with any probability and weather code, or up to MaxRainPoints     *)
(* three-hourly points around the 10% threshold.                           *)
(***************************************************************************)
MaxRainPoints == 4

RainPops == {None, Some(0), Some(95), Some(96), Some(100), Some(350), Some(1000)}
RainCodes == {199, 200, 232, 233, 299, 300, 321, 322, 499, 500, 501, 531, 532, 800}
RainWeathers == {<<>>} \cup {Code(id) : id \in RainCodes}

OnePointLists ==
  {<<Point(Day1 + 9 * SecPerHour, 70000, 2000, pop, weather)>> :
     pop \in RainPops, weather \in RainWeathers}

RainKinds ==
  {Kind(70000, 2000, Some(0), Code(500)),
   Kind(70000, 2000, Some(95), Code(501)),
   Kind(70000, 2000, Some(100), Code(800)),
   Kind(70000, 2000, Some(356), Code(800)),
   Kind(70000, 2000, None, Code(501))}

RainLists ==
  UNION {{FeedList({Day1 + (6 + 3 * (i - 1)) * SecPerHour : i \in 1..n}, kindOf) :
            kindOf \in [{Day1 + (6 + 3 * (i - 1)) * SecPerHour : i \in 1..n} -> RainKinds]} :
           n \in 0..MaxRainPoints}

InitRain ==
  /\ weatherData \in {Feed(l, City(Some(0))) : l \in OnePointLists \cup RainLists}
  /\ settings = DEFAULT_SETTINGS
  /\ now = (Day1 + 12 * SecPerHour) * 1000
  /\ browserTzMin = 0
  /\ pc = "loaded"
  /\ todayForecasts = <<>>
  /\ result = Null
  /\ explanations = <<>>
  /\ timeSpecificRecs = <<>>
  /\ ServiceIdle

(***************************************************************************)
(* The operations.                                                         *)
(***************************************************************************)
\* an evaluateConditions that writes the enriched points back into the feed
EvaluateConditions_InPlace ==
  /\ pc = "loaded"
  /\ todayForecasts' = getTodayForecasts(weatherData, now, browserTzMin)
  /\ result' = evaluateConditions(weatherData, settings, now, browserTzMin)
  /\ pc' = IF "thrown" \in DOMAIN result' THEN "thrown" ELSE "returned"
  /\ weatherData' = [weatherData EXCEPT !.list = todayForecasts']
  /\ UNCHANGED <<settings, now, browserTzMin, explanations, timeSpecificRecs>>
  /\ UNCHANGED serviceVars

\* WeatherAnalyzer.evaluateConditions(weatherData, settings), at the instant now
EvaluateConditions ==
  /\ pc = "loaded"
  /\ todayForecasts' = getTodayForecasts(weatherData, now, browserTzMin)
  /\ result' = evaluateConditions(weatherData, settings, now, browserTzMin)
  /\ pc' = IF "thrown" \in DOMAIN result' THEN "thrown" ELSE "returned"
  /\ UNCHANGED <<weatherData, settings, now, browserTzMin, explanations, timeSpecificRecs>>
  /\ UNCHANGED serviceVars

\* DOMManager.updateWeatherExplanations(result, settings)
UpdateWeatherExplanations ==
  /\ pc = "returned"
  /\ explanations' = getRecommendationExplanations(result, settings)
  /\ pc' = "displayed"
  /\ UNCHANGED <<weatherData, settings, now, browserTzMin, todayForecasts, result,
                 timeSpecificRecs>>
  /\ UNCHANGED serviceVars

\* WeatherAnalyzer.generateTimeSpecificRecommendations(validPeriods,
\* periodRecommendations, settings), called on the period recommendations of a
\* returned analysis, whatever the pattern of the day
GenerateTimeSpecificRecommendations ==
  /\ pc = "returned"
  /\ timeSpecificRecs' =
       generateTimeSpecificRecommendations(
         ValidPeriods(result.timeBasedRecommendations.periods),
         result.timeBasedRecommendations.periods, settings)
  /\ pc' = "advised"
  /\ UNCHANGED <<weatherData, settings, now, browserTzMin, todayForecasts, result,
                 explanations>>
  /\ UNCHANGED serviceVars

Next ==
  \/ EvaluateConditions
  \/ UpdateWeatherExplanations
  \/ GenerateTimeSpecificRecommendations

Spec == Init /\ [][Next]_vars
SpecWindow == InitWindow /\ [][Next]_vars
SpecRain == InitRain /\ [][Next]_vars

(***************************************************************************)
(* The operations of WeatherService on its cache.                          *)
(***************************************************************************)
\* WeatherService.cacheWeather(key, data), at the instant now
CacheWeather ==
  \E key \in CacheKeys, data \in Responses :
    /\ localStorage' = cacheWeather(localStorage, key, data, now)
    /\ serviceCall' = [op |-> "cacheWeather", key |-> key]
    /\ serviceReturn' = Null
    /\ UNCHANGED analysisVars

\* WeatherService.getCachedWeather(key), at the instant now
GetCachedWeather ==
  \E key \in CacheKeys :
    /\ localStorage' = getCachedWeather(localStorage, key, now).storage
    /\ serviceReturn' = getCachedWeather(localStorage, key, now).returned
    /\ serviceCall' = [op |-> "getCachedWeather", key |-> key]
    /\ UNCHANGED analysisVars

\* WeatherService.clearCache()
ClearCache ==
  /\ localStorage' = clearCache(localStorage)
  /\ serviceCall' = [op |-> "clearCache"]
  /\ serviceReturn' = Null
  /\ UNCHANGED analysisVars

\* time passes between two calls: Date.now() moves to a later instant
Tick ==
  /\ \E later \in ClockInstants : later > now /\ now' = later
  /\ serviceCall' = [op |-> "none"]
  /\ UNCHANGED <<weatherData, settings, browserTzMin, pc, todayForecasts, result,
                 explanations, timeSpecificRecs, localStorage, serviceReturn>>

NextCache ==
  \/ CacheWeather
  \/ GetCachedWeather
  \/ ClearCache
  \/ Tick

SpecCache == InitCache /\ [][NextCache]_vars

(***************************************************************************)
(* The operations of SettingsManager.                                      *)
(***************************************************************************)
\* SettingsManager.saveSettings(settings)
SaveSettings ==
  \E newSettings \in FormSettings :
    /\ serviceReturn' = validateSettings(newSettings)
    /\ localStorage' = [localStorage EXCEPT ![SETTINGS_KEY] = Some(serviceReturn')]
    /\ serviceCall' = [op |-> "saveSettings", settings |-> newSettings]
    /\ UNCHANGED analysisVars

\* SettingsManager.getSettings()
GetSettings ==
  /\ serviceReturn' = getSettings(localStorage)
  /\ serviceCall' = [op |-> "getSettings"]
  /\ UNCHANGED localStorage
  /\ UNCHANGED analysisVars

\* SettingsManager.resetToDefaults()
ResetToDefaults ==
  /\ localStorage' = [localStorage EXCEPT ![SETTINGS_KEY] = Some(DEFAULT_SETTINGS)]
  /\ serviceReturn' = DEFAULT_SETTINGS
  /\ serviceCall' = [op |-> "resetToDefaults"]
  /\ UNCHANGED analysisVars

NextSettings ==
  \/ SaveSettings
  \/ GetSettings
  \/ ResetToDefaults

SpecSettings == InitSettings /\ [][NextSettings]_vars

(***************************************************************************)
(* Properties.                                                             *)
(***************************************************************************)
Evaluated == pc \in {"returned", "displayed", "advised", "thrown"}
Returned == pc \in {"returned", "displayed", "advised"}

\* a returned point without the attached offset
Original(forecast) == [k \in DOMAIN forecast \ {"_timezoneOffsetMs"} |-> forecast[k]]
Originals(forecasts) == [i \in 1..Len(forecasts) |-> Original(forecasts[i])]

\* the UTC offset of the location, in ms
LocationOffsetMs == getLocationTimezoneOffset(weatherData, browserTzMin)

\* midnight of the location's local calendar day that contains now + offset
LocationDayStart == ((now + LocationOffsetMs) \div MsPerDay) * MsPerDay

InLocationToday(forecast) ==
  /\ forecast.dt * 1000 + LocationOffsetMs >= LocationDayStart
  /\ forecast.dt * 1000 + LocationOffsetMs < LocationDayStart + MsPerDay

LocationTodayPoints == SelectSeq(weatherData.list, InLocationToday)

\* C1: when some feed point lies in the location's local day that contains
\* now + offset, getTodayForecasts returns exactly the feed points of that day,
\* in feed order, whatever the timezone of the machine.
C1_TodayIsLocationDay ==
  (Evaluated /\ Len(LocationTodayPoints) > 0)
    => Originals(todayForecasts) = LocationTodayPoints

\* C2: when no feed point lies in today's window (the location's local day),
\* getTodayForecasts returns exactly the first 8 points of the feed, in order.
C2_FallbackFirstEight ==
  (Evaluated /\ Len(LocationTodayPoints) = 0)
    => Originals(todayForecasts) = SliceFirst(weatherData.list, 8)

\* C3: evaluateConditions fails with the no-forecast-data error exactly when
\* the feed's point list is empty; the failure produces no result object, and
\* every non-empty feed gets a result.
C3_ThrowsIffEmptyFeed ==
  Evaluated =>
    /\ (pc = "thrown") <=> (Len(weatherData.list) = 0)
    /\ (pc = "thrown") => result = [thrown |-> NO_FORECAST_ERROR]
    /\ (Len(weatherData.list) > 0) =>
         /\ DOMAIN result = {"topOff", "doorsOff", "timeBasedRecommendations", "maxTemp",
                             "minRain", "maxWind", "rainTiming", "timeBasedAnalysis",
                             "cityName", "lastUpdated"}
         /\ Len(todayForecasts) > 0

C3_Witness ==
  /\ pc = "thrown"
  /\ weatherData.list = <<>>
  /\ result = [thrown |-> NO_FORECAST_ERROR]

\* the greatest element of a non-empty set of integers
SetMax(S) == CHOOSE m \in S : \A x \in S : m >= x

TodayIndex == 1..Len(todayForecasts)
RoundedTemps == {Round(todayForecasts[i].main.temp, FP) : i \in TodayIndex}
RainChances == {calculateRainChance(todayForecasts[i]) : i \in TodayIndex}
RoundedWinds == {Round(todayForecasts[i].wind.speed * 2237, FP * FP) : i \in TodayIndex}

\* C4: for a non-empty today-window, maxTemp is the maximum of the rounded
\* temperatures, minRain the rounded maximum of the rain chances and maxWind the
\* maximum of round(speed * 2.237) over the points.
C4_DayMaxima ==
  Returned =>
    /\ result.maxTemp = SetMax(RoundedTemps)
    /\ result.minRain = Round(SetMax(RainChances), FP)
    /\ result.maxWind = SetMax(RoundedWinds)

\* the three maxima differ from the rounded averages of the same values
C4_Witness ==
  /\ Returned
  /\ Len(todayForecasts) >= 2
  /\ result.maxTemp = SetMax(RoundedTemps)
  /\ result.maxTemp # Round(SumTemp(todayForecasts), Len(todayForecasts) * FP)
  /\ Cardinality(RainChances) >= 2
  /\ result.minRain = Round(SetMax(RainChances), FP)
  /\ Cardinality(RoundedWinds) >= 2
  /\ result.maxWind = SetMax(RoundedWinds)

RainyCodes == (200..232) \cup (300..321) \cup (500..531)

\* the rain chance (times FP) the rule gives a point
ExpectedRainChance(forecast) ==
  IF forecast.pop # None THEN forecast.pop[1] * 100
  ELSE IF forecast.weather # <<>> /\ forecast.weather[1].id \in RainyCodes THEN 50 * FP
  ELSE 0

\* C5: calculateRainChance returns probability * 100 when the point carries a
\* probability, whatever its weather code; otherwise 50 for a thunderstorm,
\* drizzle or rain code and 0 for any other code or missing weather.  The value
\* is the one the day's peak and the rain samples are built from.
C5_RainChanceRule ==
  Returned =>
    /\ \A i \in TodayIndex :
         calculateRainChance(todayForecasts[i]) = ExpectedRainChance(weatherData.list[i])
    /\ Len(todayForecasts) = 1 =>
         /\ result.minRain = Round(ExpectedRainChance(weatherData.list[1]), FP)
         /\ result.rainTiming.hasRain =>
              result.rainTiming.periods[1].maxChance
                = ExpectedRainChance(weatherData.list[1])

\* probability 0.35 with the clear-sky code 800 gives 35
C5_Witness ==
  /\ Returned
  /\ Len(weatherData.list) = 1
  /\ weatherData.list[1].pop = Some(350)
  /\ weatherData.list[1].weather = Code(800)
  /\ result.minRain = 35
  /\ result.rainTiming.periods[1].maxChance = 35 * FP

\* C6: day-level topOff is maxTemp >= top-off threshold and minRain < rain
\* threshold; doorsOff is maxTemp >= doors-off threshold and minRain < rain
\* threshold and maxWind < wind threshold; with minRain >= rain threshold both
\* flags are false.
C6_DayFlags ==
  Returned =>
    /\ result.topOff <=> (/\ result.maxTemp >= settings.tempThresholdTopOff
                          /\ result.minRain < settings.rainChanceThreshold)
    /\ result.doorsOff <=> (/\ result.maxTemp >= settings.tempThresholdDoorsOff
                            /\ result.minRain < settings.rainChanceThreshold
                            /\ result.maxWind < settings.windSpeedThreshold)
    /\ (result.minRain >= settings.rainChanceThreshold)
         => (~result.topOff /\ ~result.doorsOff)

\* a warm, calm day whose rain chance equals the threshold: both flags false
C6_Witness ==
  /\ Returned
  /\ result.minRain = settings.rainChanceThreshold
  /\ result.maxTemp >= settings.tempThresholdDoorsOff
  /\ result.maxTemp >= settings.tempThresholdTopOff
  /\ result.maxWind < settings.windSpeedThreshold
  /\ ~result.topOff
  /\ ~result.doorsOff

\* the today-sequence as the rain segmenter reads it
Chance(i) == calculateRainChance(todayForecasts[i])
Rainy(i) == Chance(i) >= 10 * FP
Label(i) ==
  TimeStr(todayForecasts[i].dt * 1000 + todayForecasts[1]._timezoneOffsetMs, browserTzMin)
Sample(i) == [time |-> Label(i), chance |-> Chance(i)]

\* the first points of the maximal runs of consecutive rainy points, in order
RunStarts == SortedSeq({i \in TodayIndex : Rainy(i) /\ (i = 1 \/ ~Rainy(i - 1))})

\* the last point of the maximal run that starts at i
RunEnd(i) ==
  SetMax({j \in TodayIndex : j >= i /\ \A m \in i..j : Rainy(m)})

RainPeriods == result.rainTiming.periods

\* C7: analyzeRainTiming returns one period per maximal run of consecutive
\* points with rain chance >= 10, in chronological order; the k-th period
\* covers exactly the k-th run, so that periods do not overlap and a period ends
\* at the first point below 10.
C7_PeriodsAreMaximalRuns ==
  Returned =>
    /\ Len(RainPeriods) = Len(RunStarts)
    /\ \A k \in 1..Len(RainPeriods) :
         LET first == RunStarts[k]
             last == RunEnd(first)
         IN /\ Len(RainPeriods[k].forecasts) = last - first + 1
            /\ \A m \in 1..Len(RainPeriods[k].forecasts) :
                 RainPeriods[k].forecasts[m] = Sample(first + m - 1)
            /\ last < Len(todayForecasts) => ~Rainy(last + 1)
            /\ k < Len(RainPeriods) => last + 1 < RunStarts[k + 1]

\* two rain periods separated by a dry point
C7_Witness ==
  /\ Returned
  /\ Len(todayForecasts) >= 3
  /\ Len(RainPeriods) = 2
  /\ Len(RunStarts) = 2
  /\ \E i \in TodayIndex : ~Rainy(i) /\ i > RunStarts[1] /\ i < RunStarts[2]

RECURSIVE ConcatForecasts(_)
ConcatForecasts(periods) ==
  IF Len(periods) = 0 THEN <<>>
  ELSE periods[1].forecasts \o ConcatForecasts(Tail(periods))

RECURSIVE RainySamplesFrom(_)
RainySamplesFrom(i) ==
  IF i > Len(todayForecasts) THEN <<>>
  ELSE (IF Rainy(i) THEN <<Sample(i)>> ELSE <<>>) \o RainySamplesFrom(i + 1)

\* C8: the forecasts arrays of the rain periods, concatenated in period order,
\* are exactly the points with rain chance >= 10, in input order, each with its
\* time label and unrounded rain chance.
C8_SamplesRoundTrip ==
  Returned => ConcatForecasts(RainPeriods) = RainySamplesFrom(1)

\* a period of two samples, a second period, and a dry point left out
C8_Witness ==
  /\ Returned
  /\ Len(RainPeriods) = 2
  /\ Len(RainPeriods[1].forecasts) = 2
  /\ Len(ConcatForecasts(RainPeriods)) = 3
  /\ Len(todayForecasts) = 4
  /\ \E i \in TodayIndex : Chance(i) = 9500

Segments == {"morning", "afternoon", "evening"}

\* the segments of the result whose forecasts hold the point with timestamp dt
SegmentsHolding(dt) ==
  {k \in Segments :
     /\ result.timeBasedAnalysis[k] # Null
     /\ \E m \in 1..Len(result.timeBasedAnalysis[k].forecasts) :
          result.timeBasedAnalysis[k].forecasts[m].dt = dt}

SegmentSize(k) ==
  IF result.timeBasedAnalysis[k] = Null THEN 0
  ELSE Len(result.timeBasedAnalysis[k].forecasts)

\* the hour analyzeTimeBasedConditions reads for the i-th point
HourOf(i) ==
  GetHours(todayForecasts[i].dt * 1000 + todayForecasts[1]._timezoneOffsetMs, browserTzMin)

\* C9 (as claimed): every point of the today-sequence is in exactly one of the
\* segments Morning, Afternoon, Evening.
C9_EveryPointInOneSegment ==
  Returned =>
    /\ \A i \in TodayIndex : Cardinality(SegmentsHolding(todayForecasts[i].dt)) = 1
    /\ SegmentSize("morning") + SegmentSize("afternoon") + SegmentSize("evening")
         = Len(todayForecasts)

\* C9 (amended): every point of the today-sequence is in at most one segment:
\* in exactly one when its hour is in [6,24), in none when its hour is in [0,6);
\* no point is counted in two.
C9_AtMostOneSegment ==
  Returned =>
    /\ \A i \in TodayIndex :
         Cardinality(SegmentsHolding(todayForecasts[i].dt))
           = IF HourOf(i) >= 6 THEN 1 ELSE 0
    /\ SegmentSize("morning") + SegmentSize("afternoon") + SegmentSize("evening")
         = Cardinality({i \in TodayIndex : HourOf(i) >= 6})

\* a point before 6:00 left out while a later point of the day is placed
C9_Witness ==
  /\ Returned
  /\ \E i, j \in TodayIndex :
       /\ HourOf(i) < 6
       /\ SegmentsHolding(todayForecasts[i].dt) = {}
       /\ HourOf(j) = 12
       /\ SegmentsHolding(todayForecasts[j].dt) = {"afternoon"}

PeriodRecs == result.timeBasedRecommendations.periods
Advisories == result.timeBasedRecommendations.recommendations

SameFlagsEverywhere ==
  \A a, b \in DOMAIN PeriodRecs :
    /\ PeriodRecs[a].topOff = PeriodRecs[b].topOff
    /\ PeriodRecs[a].doorsOff = PeriodRecs[b].doorsOff

ConsistentSentences ==
  {"Perfect weather all day! Keep both top and doors off.",
   "Great weather for the top off all day, but keep doors on due to wind or temperature.",
   "Weather conditions suggest keeping top and doors on today."}

\* C10: when every segment that has data carries the same topOff and the same
\* doorsOff, the day is classified as consistent and exactly one advisory
\* sentence is returned, with no transition tip appended.
C10_UniformDayOneSentence ==
  (Returned /\ SameFlagsEverywhere) =>
    /\ analyzeWeatherPatterns(ValidPeriods(PeriodRecs), PeriodRecs).consistentGoodWeather
    /\ Len(Advisories) = 1
    /\ Advisories[1] # TRANSITION_TIP
    /\ DOMAIN PeriodRecs # {} => Advisories[1] \in ConsistentSentences

\* three segments with data, all top on and doors on
C10_Witness ==
  /\ Returned
  /\ DOMAIN PeriodRecs = Segments
  /\ SameFlagsEverywhere
  /\ ~PeriodRecs["morning"].topOff
  /\ ~PeriodRecs["morning"].doorsOff
  /\ Advisories = <<"Weather conditions suggest keeping top and doors on today.">>

\* the valid segments, in Morning, Afternoon, Evening order
ValidSeq == ValidPeriods(PeriodRecs)

\* the configuration class of the i-th valid segment
ClassOf(i) ==
  LET p == PeriodRecs[ValidSeq[i]]
  IN IF p.topOff /\ p.doorsOff THEN "both-off"
     ELSE IF p.topOff THEN "top-off"
     ELSE "both-on"

\* the first segments of the maximal runs of consecutive valid segments of one class
ClassRunStarts ==
  SortedSeq({i \in 1..Len(ValidSeq) : i = 1 \/ ClassOf(i) # ClassOf(i - 1)})

NumClassRuns == Len(ClassRunStarts)

\* the groups generateTimeSpecificRecommendations builds for the day
DayGroups == GroupPeriods(ValidSeq, PeriodRecs)

VariableDay == analyzeWeatherPatterns(ValidSeq, PeriodRecs).variableConditions

\* the advisories are the sentences of a variable day: none of the fixed
\* sentences of a consistent day or of a day without data
TimeSpecificAdvice ==
  /\ Advisories[1] \notin ConsistentSentences
  /\ Advisories[1] # "No detailed forecast available for today"

\* C11 (as claimed): when two valid segments differ in topOff or in doorsOff the
\* day is classified as variable and there is one group per maximal run of
\* consecutive valid segments of one configuration class.
C11_DifferentFlagsVariable ==
  (Returned /\ ~SameFlagsEverywhere) =>
    /\ VariableDay
    /\ TimeSpecificAdvice
    /\ Len(DayGroups) = NumClassRuns

\* C11 (amended): when two valid segments differ in topOff the day is classified
\* as variable and there is one group, with one sentence, per maximal run of
\* consecutive valid segments of one configuration class; segments that differ
\* only in doorsOff leave the day consistent.
C11_DifferentTopOffVariable ==
  Returned =>
    /\ (\E a, b \in DOMAIN PeriodRecs : PeriodRecs[a].topOff # PeriodRecs[b].topOff)
         => /\ VariableDay
            /\ TimeSpecificAdvice
            /\ Len(DayGroups) = NumClassRuns
            /\ Len(Advisories) = NumClassRuns + 1
            /\ \A k \in 1..NumClassRuns :
                 DayGroups[k].periods[1] = PeriodRecs[ValidSeq[ClassRunStarts[k]]]
    /\ (/\ ~SameFlagsEverywhere
        /\ \A a, b \in DOMAIN PeriodRecs : PeriodRecs[a].topOff = PeriodRecs[b].topOff)
         => /\ ~VariableDay
            /\ Len(Advisories) = 1
            /\ Advisories[1] \in ConsistentSentences

\* three valid segments in two runs: both-off twice, then both-on
C11_Witness ==
  /\ Returned
  /\ Len(ValidSeq) = 3
  /\ VariableDay
  /\ ClassOf(1) = "both-off"
  /\ ClassOf(2) = "both-off"
  /\ ClassOf(3) = "both-on"
  /\ Len(DayGroups) = 2
  /\ Len(Advisories) = 3

StartsWith(str, prefix) ==
  Len(str) >= Len(prefix) /\ SubSeq(str, 1, Len(prefix)) = prefix

IsRecLine(str) == StartsWith(str, "(rec) ")
IsTipLine(str) == StartsWith(str, "(tip) Planning tip: ")
IsDetailsLine(str) == StartsWith(str, "(details) Technical details: ")

PlanningTipDue ==
  result.minRain < settings.rainChanceThreshold /\ result.rainTiming.hasRain

\* C12: the explanations are, in this order, every time-based recommendation
\* in its original order, at most one rain-timing planning tip and at most one
\* technical-details line; the planning tip is there exactly when
\* minRain < rain threshold and the rain timing reports hasRain.
C12_ExplanationOrder ==
  (pc = "displayed") =>
    LET n == Len(Advisories)
        rest == SubSeq(explanations, n + 1, Len(explanations))
    IN /\ Len(explanations) >= n
       /\ \A i \in 1..n : explanations[i] = "(rec) " \o Advisories[i]
       /\ Len(rest) <= 2
       /\ \A i \in 1..Len(rest) : IsTipLine(rest[i]) \/ IsDetailsLine(rest[i])
       /\ Len(rest) = 2 => (IsTipLine(rest[1]) /\ IsDetailsLine(rest[2]))
       /\ (\E i \in 1..Len(rest) : IsTipLine(rest[i])) <=> PlanningTipDue
       /\ PlanningTipDue =>
            rest[1] = "(tip) Planning tip: " \o result.rainTiming.summary

\* recommendations, then the planning tip, then the technical details
C12_Witness ==
  /\ pc = "displayed"
  /\ Len(Advisories) >= 2
  /\ Len(explanations) = Len(Advisories) + 2
  /\ IsRecLine(explanations[1])
  /\ IsTipLine(explanations[Len(Advisories) + 1])
  /\ IsDetailsLine(explanations[Len(Advisories) + 2])

\* the fields the stages attach to the points they work on
AttachedFields == {"_timezoneOffsetMs", "localTime", "hour"}

FeedUntouched(wd) ==
  \A i \in 1..Len(wd.list) : DOMAIN wd.list[i] \cap AttachedFields = {}

SegmentPointsOf(res) ==
  UNION {{res.timeBasedAnalysis[k].forecasts[m] :
            m \in 1..Len(res.timeBasedAnalysis[k].forecasts)} :
         k \in {s \in Segments : res.timeBasedAnalysis[s] # Null}}

\* C13: an analysis call leaves the supplied feed, each of its points and the
\* settings unchanged; the timezone offset and the per-segment local time and
\* hour are attached to copies of the points, never to the caller's records.
C13_AnalysisLeavesInputs ==
  [][(pc = "loaded" /\ pc' # "loaded") =>
       /\ weatherData' = weatherData
       /\ settings' = settings
       /\ FeedUntouched(weatherData')
       /\ \A i \in 1..Len(todayForecasts') :
            "_timezoneOffsetMs" \in DOMAIN todayForecasts'[i]
       /\ (pc' = "returned") =>
            \A p \in SegmentPointsOf(result') :
              {"localTime", "hour"} \subseteq DOMAIN p]_vars

\* an evaluated feed whose copies carry the attached fields
C13_Witness ==
  /\ pc = "returned"
  /\ Len(weatherData.list) >= 2
  /\ FeedUntouched(weatherData)
  /\ Len(todayForecasts) >= 2
  /\ "_timezoneOffsetMs" \in DOMAIN todayForecasts[1]
  /\ \E p \in SegmentPointsOf(result) : "hour" \in DOMAIN p

SampleChances(period) ==
  {period.forecasts[m].chance : m \in 1..Len(period.forecasts)}

\* C14: every rain period is non-empty; its start time and start hour are those
\* of its first sample, its end time and end hour those of its last sample, and
\* its maxChance is the maximum rain chance over its samples (so at least 10).
C14_PeriodEndsAndPeak ==
  Returned =>
    /\ Len(RainPeriods) = Len(RunStarts)
    /\ \A k \in 1..Len(RainPeriods) :
         LET period == RainPeriods[k]
             n == Len(period.forecasts)
         IN /\ n >= 1
            /\ period.startTime = period.forecasts[1].time
            /\ period.endTime = period.forecasts[n].time
            /\ period.startHour = HourOf(RunStarts[k])
            /\ period.endHour = HourOf(RunEnd(RunStarts[k]))
            /\ period.maxChance = SetMax(SampleChances(period))
            /\ period.maxChance >= 10 * FP

\* a period of three samples whose peak is neither the first nor the last
C14_Witness ==
  /\ Returned
  /\ \E k \in 1..Len(RainPeriods) :
       /\ Len(RainPeriods[k].forecasts) = 3
       /\ RainPeriods[k].forecasts[1].chance < RainPeriods[k].forecasts[2].chance
       /\ RainPeriods[k].forecasts[3].chance < RainPeriods[k].forecasts[2].chance
       /\ RainPeriods[k].maxChance = RainPeriods[k].forecasts[2].chance
       /\ RainPeriods[k].startHour + 6 = RainPeriods[k].endHour

\* the integer nearest to a chance held in thousandths (halves go up)
NearestPercent(chance) ==
  CHOOSE n \in 0..101 : 2 * n * FP - FP <= 2 * chance /\ 2 * chance < 2 * n * FP + FP

SingleInstant(period) == period.startTime = period.endTime

Fragment(period) ==
  (IF SingleInstant(period) THEN period.startTime
   ELSE period.startTime \o "-" \o period.endTime)
  \o " (" \o ToString(NearestPercent(period.maxChance)) \o "%)"

RECURSIVE FragmentsUpTo(_)
FragmentsUpTo(k) ==
  IF k = 1 THEN Fragment(RainPeriods[1])
  ELSE FragmentsUpTo(k - 1) \o ", " \o Fragment(RainPeriods[k])

ExpectedRainSummary ==
  IF Len(RainPeriods) = 0 THEN "No significant rain expected today"
  ELSE IF Len(RainPeriods) = 1
  THEN IF SingleInstant(RainPeriods[1])
       THEN "Rain expected around " \o RainPeriods[1].startTime \o " ("
              \o ToString(NearestPercent(RainPeriods[1].maxChance)) \o "% chance)"
       ELSE "Rain expected from " \o RainPeriods[1].startTime \o " to "
              \o RainPeriods[1].endTime \o " (up to "
              \o ToString(NearestPercent(RainPeriods[1].maxChance)) \o "% chance)"
  ELSE "Rain expected: " \o FragmentsUpTo(Len(RainPeriods))

\* C15: the rain summary is chosen by the number of periods: none gives "No
\* significant rain expected today"; one gives the "around {start}" form when
\* its start and end labels are equal and the "from {start} to {end}" form
\* otherwise; two or more give "Rain expected: " and one fragment per period in
\* period order, single-instant or range by the same test; every percentage is
\* the period's peak rounded to the nearest integer.
C15_RainSummaryText ==
  Returned => result.rainTiming.summary = ExpectedRainSummary

\* a single-instant period and a range period whose peak needs rounding
C15_Witness ==
  /\ Returned
  /\ Len(RainPeriods) = 2
  /\ SingleInstant(RainPeriods[1])
  /\ ~SingleInstant(RainPeriods[2])
  /\ RainPeriods[2].maxChance % FP >= FP \div 2
  /\ result.rainTiming.summary = "Rain expected: 6:00 AM (10%), 12:00 PM-3:00 PM (36%)"

\* the hour on the location's clock of the i-th point of the today-sequence
LocationHour(i) ==
  ((todayForecasts[i].dt * 1000 + todayForecasts[1]._timezoneOffsetMs) \div MsPerHour) % 24

SegmentRange(k) ==
  IF k = "morning" THEN 6..11 ELSE IF k = "afternoon" THEN 12..17 ELSE 18..23

\* C16: a point is placed in Morning exactly when its hour on the location's
\* clock is in [6,12), in Afternoon exactly when it is in [12,18), in Evening
\* exactly when it is in [18,24), whatever the timezone of the machine; a
\* segment that receives no point is reported as null.
C16_SegmentsByLocationHour ==
  Returned =>
    \A k \in Segments :
      /\ \A i \in TodayIndex :
           (k \in SegmentsHolding(todayForecasts[i].dt)) <=> (LocationHour(i) \in SegmentRange(k))
      /\ (result.timeBasedAnalysis[k] = Null)
           <=> (\A i \in TodayIndex : LocationHour(i) \notin SegmentRange(k))

\* the placement is the location's on a machine whose own clock is UTC
C16_OnUtcMachine == browserTzMin = 0 => C16_SegmentsByLocationHour

SegmentPoints(k) == result.timeBasedAnalysis[k].forecasts

RECURSIVE SumOfTemps(_, _)
SumOfTemps(k, n) ==
  IF n = 0 THEN 0 ELSE SumOfTemps(k, n - 1) + SegmentPoints(k)[n].main.temp

\* the integer nearest to total / (count * FP), halves going up
NearestAverage(total, count) ==
  CHOOSE n \in 0..200 :
    /\ (2 * n - 1) * count * FP <= 2 * total
    /\ 2 * total < (2 * n + 1) * count * FP

\* the integer nearest to a speed in mph held in millionths
NearestMph(mph) ==
  CHOOSE n \in 0..200 :
    (2 * n - 1) * FP * FP <= 2 * mph /\ 2 * mph < (2 * n + 1) * FP * FP

SegmentTemp(k) == NearestAverage(SumOfTemps(k, Len(SegmentPoints(k))), Len(SegmentPoints(k)))
SegmentRain(k) ==
  NearestPercent(SetMax({calculateRainChance(SegmentPoints(k)[m]) :
                           m \in 1..Len(SegmentPoints(k))}))
SegmentWind(k) ==
  NearestMph(SetMax({SegmentPoints(k)[m].wind.speed * 2237 :
                       m \in 1..Len(SegmentPoints(k))}))

\* C17: for every non-empty segment, the temperature is the rounded average of
\* its points' temperatures, the rain chance the rounded maximum rain chance,
\* the wind the rounded maximum of wind x 2.237; topOff iff temperature >= top
\* threshold and rain < rain threshold; doorsOff iff temperature >= doors
\* threshold and rain < rain threshold and wind < wind threshold.
C17_SegmentValuesAndFlags ==
  Returned =>
    /\ DOMAIN PeriodRecs = {k \in Segments : result.timeBasedAnalysis[k] # Null}
    /\ \A k \in DOMAIN PeriodRecs :
         /\ Len(SegmentPoints(k)) >= 1
         /\ PeriodRecs[k].temp = SegmentTemp(k)
         /\ result.timeBasedAnalysis[k].avgTemp = SegmentTemp(k)
         /\ PeriodRecs[k].rainChance = SegmentRain(k)
         /\ PeriodRecs[k].windSpeed = SegmentWind(k)
         /\ PeriodRecs[k].topOff <=>
              /\ SegmentTemp(k) >= settings.tempThresholdTopOff
              /\ SegmentRain(k) < settings.rainChanceThreshold
         /\ PeriodRecs[k].doorsOff <=>
              /\ SegmentTemp(k) >= settings.tempThresholdDoorsOff
              /\ SegmentRain(k) < settings.rainChanceThreshold
              /\ SegmentWind(k) < settings.windSpeedThreshold

\* a morning of 70 and 58.4 degrees: average 64, top off, doors on at 65
C17_Witness ==
  /\ Returned
  /\ "morning" \in DOMAIN PeriodRecs
  /\ Len(SegmentPoints("morning")) = 2
  /\ SegmentPoints("morning")[1].main.temp = 70000
  /\ SegmentPoints("morning")[2].main.temp = 58400
  /\ PeriodRecs["morning"].temp = 64
  /\ settings.tempThresholdDoorsOff = 65
  /\ PeriodRecs["morning"].topOff
  /\ ~PeriodRecs["morning"].doorsOff

ValidSegments == DOMAIN PeriodRecs
TopOffSegments == {k \in ValidSegments : PeriodRecs[k].topOff}
DoorsOffSegments == {k \in ValidSegments : PeriodRecs[k].doorsOff}

ConsistentDay ==
  Cardinality(TopOffSegments) = 0
    \/ Cardinality(TopOffSegments) = Cardinality(ValidSegments)

\* C18: on a consistent day (the number of valid segments with topOff is 0 or
\* the number of valid segments) the single advisory sentence is "Perfect
\* weather all day! ..." when every valid segment has doorsOff; otherwise "Great
\* weather for the top off all day, ..." when every valid segment has topOff;
\* otherwise "Weather conditions suggest keeping top and doors on today."
C18_ConsistentSentenceOrder ==
  (Returned /\ ValidSegments # {} /\ ConsistentDay) =>
    Advisories =
      IF DoorsOffSegments = ValidSegments
      THEN <<"Perfect weather all day! Keep both top and doors off.">>
      ELSE IF TopOffSegments = ValidSegments
      THEN <<"Great weather for the top off all day, but keep doors on due to wind or temperature.">>
      ELSE <<"Weather conditions suggest keeping top and doors on today.">>

\* doors off in every segment while no segment has the top off (doors
\* threshold below the top threshold): the first sentence is the one chosen
C18_Witness ==
  /\ Returned
  /\ Cardinality(ValidSegments) = 2
  /\ TopOffSegments = {}
  /\ DoorsOffSegments = ValidSegments
  /\ Advisories = <<"Perfect weather all day! Keep both top and doors off.">>

Advised == pc = "advised" /\ Len(ValidSeq) > 0

\* the valid segments of the k-th run, first to last
RunFirst(k) == ClassRunStarts[k]
RunLast(k) == IF k < NumClassRuns THEN ClassRunStarts[k + 1] - 1 ELSE Len(ValidSeq)
RunFlags(k) ==
  <<PeriodRecs[ValidSeq[RunFirst(k)]].topOff, PeriodRecs[ValidSeq[RunFirst(k)]].doorsOff>>

\* how the sentence of the k-th run opens
RunOpenings(k) ==
  LET n == RunLast(k) - RunFirst(k) + 1
      a == ValidSeq[RunFirst(k)]
      b == ValidSeq[RunLast(k)]
  IN IF n = 1 THEN {"This " \o a \o ": "}
     ELSE IF n = 2 THEN {a \o " and " \o b \o ": "}
     ELSE {"Perfect weather all day", "Good day for top off, but keep doors on all day",
           "Keep both top and doors on today"}

TipDue ==
  /\ NumClassRuns >= 2
  /\ \E k \in 2..NumClassRuns : RunFlags(k) # RunFlags(k - 1)

\* C19: generateTimeSpecificRecommendations emits one sentence per run, in
\* chronological order of the runs, and appends the transition tip exactly when
\* there are at least two runs and two chronologically adjacent runs differ in
\* topOff or in doorsOff; the tip comes at most once and after all run sentences.
C19_RunSentencesThenTip ==
  Advised =>
    /\ Len(timeSpecificRecs) = NumClassRuns + (IF TipDue THEN 1 ELSE 0)
    /\ \A k \in 1..NumClassRuns :
         /\ k <= Len(timeSpecificRecs)
         /\ timeSpecificRecs[k] # TRANSITION_TIP
         /\ \E opening \in RunOpenings(k) : StartsWith(timeSpecificRecs[k], opening)
    /\ TipDue <=> (\E i \in 1..Len(timeSpecificRecs) : timeSpecificRecs[i] = TRANSITION_TIP)
    /\ TipDue => timeSpecificRecs[Len(timeSpecificRecs)] = TRANSITION_TIP

\* three runs of one segment each, then the tip
C19_Witness ==
  /\ Advised
  /\ NumClassRuns = 3
  /\ Len(timeSpecificRecs) = 4
  /\ StartsWith(timeSpecificRecs[1], "This morning: ")
  /\ StartsWith(timeSpecificRecs[2], "This afternoon: ")
  /\ StartsWith(timeSpecificRecs[3], "This evening: ")
  /\ timeSpecificRecs[4] = TRANSITION_TIP

\* one run over two segments: one sentence and no tip
C19_OneRunNoTip ==
  (Advised /\ NumClassRuns = 1 /\ Len(ValidSeq) >= 2) =>
    Len(timeSpecificRecs) = 1 /\ timeSpecificRecs[1] # TRANSITION_TIP

Contains(str, sub) ==
  \E i \in 1..(Len(str) - Len(sub) + 1) : SubSeq(str, i, i + Len(sub) - 1) = sub

RunSegments(k) == {ValidSeq[i] : i \in RunFirst(k)..RunLast(k)}

LowTempIn(k) == \E s \in RunSegments(k) : PeriodRecs[s].temp < settings.tempThresholdTopOff
RainIn(k) == \E s \in RunSegments(k) : PeriodRecs[s].rainChance >= settings.rainChanceThreshold
WindIn(k) == \E s \in RunSegments(k) : PeriodRecs[s].windSpeed >= settings.windSpeedThreshold

NamesLowTemp(sentence) == Contains(sentence, "temperature only reaching ")
NamesRain(sentence) == Contains(sentence, "% chance of rain")
NamesWind(sentence) == Contains(sentence, "winds up to ")

\* C20: the reason clause of a run names exactly the factors that fail: a
\* low-temperature clause whenever a segment of the run has a temperature below
\* the top-off threshold, a rain clause whenever a segment's rain chance is >=
\* the rain threshold, a wind clause whenever a segment's wind is >= the wind
\* threshold; the clause is omitted when no factor fails.
C20_ReasonNamesFailingFactors ==
  Advised =>
    \A k \in 1..NumClassRuns :
      /\ NamesLowTemp(timeSpecificRecs[k]) <=> LowTempIn(k)
      /\ NamesRain(timeSpecificRecs[k]) <=> RainIn(k)
      /\ NamesWind(timeSpecificRecs[k]) <=> WindIn(k)
      /\ (~LowTempIn(k) /\ ~RainIn(k) /\ ~WindIn(k)) =>
           ~Contains(timeSpecificRecs[k], "(")
             \/ (NumClassRuns = 1 /\ Contains(timeSpecificRecs[k], "all day ("))

\* the rain and wind clauses are named exactly when they fail
C20_RainAndWindNamed ==
  Advised =>
    \A k \in 1..NumClassRuns :
      /\ NamesRain(timeSpecificRecs[k]) <=> RainIn(k)
      /\ NamesWind(timeSpecificRecs[k]) <=> WindIn(k)

\* the low-temperature clause is named when every segment of the run is below
\* the top-off threshold, and only then
C20_LowTempNamedWhenAllLow ==
  Advised =>
    \A k \in 1..NumClassRuns :
      NamesLowTemp(timeSpecificRecs[k])
        <=> \A s \in RunSegments(k) : PeriodRecs[s].temp < settings.tempThresholdTopOff

ValidTemps == {PeriodRecs[s].temp : s \in ValidSegments}
SetMin(S) == CHOOSE x \in S : \A y \in S : x <= y

\* the day's temperature range over the valid segments, as the claim formats it
ExpectedRange ==
  IF SetMin(ValidTemps) = SetMax(ValidTemps)
  THEN ToString(SetMin(ValidTemps)) \o "°F"
  ELSE ToString(SetMin(ValidTemps)) \o "°F - " \o ToString(SetMax(ValidTemps)) \o "°F"

OneSentenceManySegments ==
  Advised /\ Len(timeSpecificRecs) = 1 /\ Len(ValidSeq) > 1

\* C21: whenever generateTimeSpecificRecommendations ends with exactly one
\* sentence while more than one valid segment exists, that sentence carries the
\* day's temperature range over the valid segments, the minimum alone when it
\* equals the maximum and minimum - maximum otherwise, where "all day" stood.
C21_OneSentenceCarriesRange ==
  OneSentenceManySegments => Contains(timeSpecificRecs[1], ExpectedRange)

\* the range is there exactly when the sentence has the words "all day": a run of
\* three segments with the top off
C21_RangeOnlyInAllDaySentences ==
  OneSentenceManySegments =>
    (Contains(timeSpecificRecs[1], "all day (" \o ExpectedRange \o ")")
       <=> (Len(ValidSeq) = 3 /\ PeriodRecs[ValidSeq[1]].topOff))

NoSegmentHasData ==
  /\ Len(todayForecasts) > 0
  /\ \A i \in TodayIndex : PeriodOfHour(HourOf(i)) \notin Segments

\* C22: when no segment has data (every point of the today-sequence falls
\* outside all three segments), the time-based recommendations are exactly the
\* one sentence "No detailed forecast available for today", and the call does
\* not fail.
C22_NoDataOneSentence ==
  (Evaluated /\ NoSegmentHasData) =>
    /\ Returned
    /\ \A k \in Segments : result.timeBasedAnalysis[k] = Null
    /\ DOMAIN PeriodRecs = {}
    /\ Advisories = <<"No detailed forecast available for today">>

\* two points of the night, before 6 on the clock the segments are read on
C22_Witness ==
  /\ Returned
  /\ Len(todayForecasts) >= 2
  /\ NoSegmentHasData
  /\ Advisories = <<"No detailed forecast available for today">>

\* a getCachedWeather(key) step that finds an item under the key
GetFinds(key) ==
  /\ serviceCall' = [op |-> "getCachedWeather", key |-> key]
  /\ now' = now
  /\ IsSome(localStorage[CacheItemKey(key)])

\* what getCachedWeather(key) must do with an item that lives for `lifetime` ms
ServedFor(key, lifetime) ==
  LET item == localStorage[CacheItemKey(key)][1]
  IN IF now - item.timestamp <= lifetime
     THEN /\ serviceReturn' = [item.data EXCEPT !.cacheTimestamp = Some(item.timestamp)]
          /\ localStorage' = localStorage
     ELSE /\ serviceReturn' = Null
          /\ localStorage' = [localStorage EXCEPT ![CacheItemKey(key)] = None]

\* C23: a response cached under a key at time t is returned by getCachedWeather
\* for that key, with cacheTimestamp = t, at every later time up to t + 10
\* minutes; after that it is expired: the item is removed and null is returned.
C23_CachedForTenMinutes ==
  [][\A key \in CacheKeys : GetFinds(key) => ServedFor(key, TEN_MINUTES)]_vars

\* the item is served for CACHE_DURATION, which is one second
C23_CachedForCacheDuration ==
  [][\A key \in CacheKeys : GetFinds(key) => ServedFor(key, CACHE_DURATION)]_vars

Saved == serviceCall.op = "saveSettings"

Clamp(value, low, high) ==
  IF value < low THEN low ELSE IF value > high THEN high ELSE value

\* the fields of the saved form that hold a number
NumericFields == {f \in DOMAIN serviceCall.settings : IsSome(serviceCall.settings[f])}

RangeLow(f) == IF f \in {"tempThresholdTopOff", "tempThresholdDoorsOff"} THEN 20 ELSE 0
RangeHigh(f) == IF f = "windSpeedThreshold" THEN 50 ELSE 100

\* C24: validateSettings returns each threshold clamped to its range (top-off
\* and doors-off temperature to [20,100], rain chance to [0,100], wind speed to
\* [0,50]): a numeric input inside its range, the lower bound 0 for rain and
\* wind included, is returned unchanged, and an out-of-range input is replaced
\* by the nearest bound.
C24_ThresholdsClamped ==
  Saved =>
    \A f \in NumericFields :
      serviceReturn[f] = Clamp(serviceCall.settings[f][1], RangeLow(f), RangeHigh(f))

\* the clamping holds for every number but 0, which gives the default threshold
C24_ClampedUnlessZero ==
  Saved =>
    \A f \in NumericFields :
      serviceReturn[f] =
        IF serviceCall.settings[f][1] = 0
        THEN Clamp(DEFAULT_SETTINGS[f], RangeLow(f), RangeHigh(f))
        ELSE Clamp(serviceCall.settings[f][1], RangeLow(f), RangeHigh(f))

\* C25: whenever the reported day-level peak rain chance (minRain) is >= 10, the
\* rain timing of the same result has hasRain true, at least one rain period
\* and a summary other than "No significant rain expected today"; conversely
\* hasRain is true only if some point of the window has rain chance >= 10.
C25_PeakRainHasTiming ==
  Returned =>
    /\ result.minRain >= 10 =>
         /\ result.rainTiming.hasRain
         /\ Len(RainPeriods) >= 1
         /\ result.rainTiming.summary # "No significant rain expected today"
    /\ result.rainTiming.hasRain => \E i \in TodayIndex : Chance(i) >= 10 * FP

\* hasRain, the periods and the summary follow the unrounded chances
C25_TimingFollowsUnrounded ==
  Returned =>
    LET someRain == \E i \in TodayIndex : Chance(i) >= 10 * FP
    IN /\ result.rainTiming.hasRain <=> someRain
       /\ Len(RainPeriods) >= 1 <=> someRain
       /\ (result.rainTiming.summary # "No significant rain expected today") <=> someRain
       /\ result.minRain >= 10 <=> (\E i \in TodayIndex : 2 * Chance(i) >= 19 * FP)

PERFECT_ALL_DAY == "Perfect weather all day! Keep both top and doors off."
KEEP_ON_TODAY == "Weather conditions suggest keeping top and doors on today."

Advises(sentence) == \E i \in 1..Len(Advisories) : Advisories[i] = sentence

\* C26: in every result of evaluateConditions the time-based advisory agrees
\* with the day-level flags: "Perfect weather all day! Keep both top and doors
\* off." appears only when the day-level topOff and doorsOff are both true, and
\* "Weather conditions suggest keeping top and doors on today." appears only
\* when the day-level topOff is false.
C26_AdvisoryAgreesWithDayFlags ==
  Returned =>
    /\ Advises(PERFECT_ALL_DAY) => (result.topOff /\ result.doorsOff)
    /\ Advises(KEEP_ON_TODAY) => ~result.topOff

\* the two sentences follow the flags of the segments, not those of the day
C26_AdvisoryFollowsSegments ==
  Returned =>
    /\ Advises(PERFECT_ALL_DAY) <=>
         (ValidSegments # {} /\ ConsistentDay /\ DoorsOffSegments = ValidSegments)
    /\ Advises(KEEP_ON_TODAY) <=>
         (ValidSegments # {} /\ TopOffSegments = {} /\ DoorsOffSegments # ValidSegments)

DoorsNotBelowTop == settings.tempThresholdDoorsOff >= settings.tempThresholdTopOff

\* C27: when the doors-off temperature threshold is >= the top-off temperature
\* threshold, doorsOff implies topOff, for the day-level flags and for every
\* segment's flags, whatever the feed and the rain and wind thresholds: top on
\* with doors off is never recommended.
C27_DoorsOffImpliesTopOff ==
  (Returned /\ DoorsNotBelowTop) =>
    /\ result.doorsOff => result.topOff
    /\ \A k \in ValidSegments : PeriodRecs[k].doorsOff => PeriodRecs[k].topOff
    /\ DoorsOffSegments \subseteq TopOffSegments

\* equal thresholds, a segment with doors and top off and a rainy segment with
\* both on
C27_Witness ==
  /\ Returned
  /\ settings.tempThresholdDoorsOff = settings.tempThresholdTopOff
  /\ result.maxTemp >= settings.tempThresholdDoorsOff
  /\ DoorsOffSegments # {}
  /\ \E k \in ValidSegments :
       /\ ~PeriodRecs[k].topOff
       /\ PeriodRecs[k].temp >= settings.tempThresholdDoorsOff
       /\ PeriodRecs[k].windSpeed < settings.windSpeedThreshold

\* the sentence ends with a reason clause " (...)"
HasReason(sentence) ==
  /\ Contains(sentence, " (")
  /\ SubSeq(sentence, Len(sentence), Len(sentence)) = ")"
  /\ ~Contains(sentence, " ()")

\* C28: on a variable day, every sentence for a both-on run (a run whose
\* segments have topOff false) carries a non-empty reason clause, and every
\* sentence for a both-off run carries no reason clause, for all settings and
\* segment values.
C28_ReasonByRunClass ==
  (Returned /\ VariableDay) =>
    /\ Len(Advisories) >= NumClassRuns
    /\ \A k \in 1..NumClassRuns :
         /\ ClassOf(RunFirst(k)) = "both-on" => HasReason(Advisories[k])
         /\ ClassOf(RunFirst(k)) = "both-off" => ~Contains(Advisories[k], "(")

\* a both-on run of a cool dry morning and a warm rainy afternoon, then a
\* both-off evening
C28_Witness ==
  /\ Returned
  /\ VariableDay
  /\ NumClassRuns = 2
  /\ ClassOf(1) = "both-on"
  /\ ClassOf(2) = "both-on"
  /\ ClassOf(3) = "both-off"
  /\ PeriodRecs["morning"].rainChance = 0
  /\ PeriodRecs["afternoon"].temp >= settings.tempThresholdTopOff
  /\ HasReason(Advisories[1])
  /\ Advisories[2] = "This evening: Perfect for both top and doors off"

DetailsLines == {i \in 1..Len(explanations) : IsDetailsLine(explanations[i])}

NamesFactor(line) ==
  \/ Contains(line, "Temperature too low (")
  \/ Contains(line, "Temperature too low for doors off (")
  \/ Contains(line, "Rain chance too high (")
  \/ Contains(line, "Wind too strong for doors off (")

\* C29: getRecommendationExplanations omits the technical-details line exactly
\* when the day-level topOff and doorsOff are both true; whenever either flag
\* is false the line is present and names at least one failing factor.
C29_DetailsIffFlagFalse ==
  (pc = "displayed") =>
    /\ DetailsLines = {} <=> (result.topOff /\ result.doorsOff)
    /\ \A i \in DetailsLines : NamesFactor(explanations[i])
    /\ Cardinality(DetailsLines) <= 1

\* top off, doors kept on for the wind alone: the line names the wind
C29_Witness ==
  /\ pc = "displayed"
  /\ result.topOff
  /\ ~result.doorsOff
  /\ result.maxTemp >= settings.tempThresholdDoorsOff
  /\ \E i \in DetailsLines :
       SubSeq(explanations[i], 1, 60)
         = "(details) Technical details: Wind too strong for doors off ("

RunLength(k) == RunLast(k) - RunFirst(k) + 1

AllDayTemplates ==
  {"Perfect weather all day! Both top and doors off recommended",
   "Good day for top off, but keep doors on all day",
   "Keep both top and doors on today"}

UsesAllDayTemplate(sentence) == \E t \in AllDayTemplates : StartsWith(sentence, t)

\* a temperature range as generateTimeSpecificRecommendations splices it
HasSplicedRange(sentence) == Contains(sentence, "all day (")

\* C30: for every result of evaluateConditions on a variable day, the advisory
\* list has at least two runs and is exactly one sentence per run followed by
\* the transition tip (length = number of runs + 1, at least 3); so no run
\* spans all three segments, the "all day" templates of
\* generateTimeSpecificRecommendations are never used, and no advisory sentence
\* ever contains a spliced temperature range.
C30_VariableDayRunsThenTip ==
  Returned =>
    /\ VariableDay =>
         /\ NumClassRuns >= 2
         /\ Len(Advisories) = NumClassRuns + 1
         /\ Len(Advisories) >= 3
         /\ Advisories[Len(Advisories)] = TRANSITION_TIP
         /\ \A k \in 1..NumClassRuns :
              /\ Advisories[k] # TRANSITION_TIP
              /\ RunLength(k) <= 2
              /\ \E opening \in RunOpenings(k) : StartsWith(Advisories[k], opening)
    /\ \A i \in 1..Len(Advisories) :
         /\ ~UsesAllDayTemplate(Advisories[i])
         /\ ~HasSplicedRange(Advisories[i])

\* three runs of one segment each
C30_Witness ==
  /\ Returned
  /\ VariableDay
  /\ NumClassRuns = 3
  /\ Len(Advisories) = 4
  /\ Advisories[4] = TRANSITION_TIP
  /\ StartsWith(Advisories[1], "This morning: ")

====
